---- MODULE Spec2Model ----
(***************************************************************************)
(* Authority & safety kernel of ProjectZeo.                                *)
(*                                                                         *)
(*   Spec      ModeController (src/core/mode_controller.py): the           *)
(*             OBSERVER / ARMED / EXECUTING state machine, its health and  *)
(*             vision gates, the input lock and the transition history.    *)
(*   SpecArb   InputArbitrator (src/authority/input_arbitrator.py) with    *)
(*             its InputTracker, AuthorityPolicy and deadman watchdog.     *)
(*   SpecLoop  operate() (src/operate/operate.py): the step loop polling   *)
(*             the arbitrator before each automated input primitive.       *)
(*   SpecJournal  ActionJournal (src/audit/journal.py): the hash chain     *)
(*             and the INTENT / EFFECT protocol.                           *)
(*   SpecPolicy   PolicyEngine.validate (src/policy/engine.py) and the     *)
(*             gate AccessibilityBackend.execute.                          *)
(*   SpecRestore  capture, restore and verify (src/restoration/).          *)
(*   SpecMain  main() (src/operate/operate.py): capture, loop, handlers,   *)
(*             restore and verify, seal.                                   *)
(***************************************************************************)
EXTENDS Integers, Sequences, FiniteSets, TLC

None == "None"

(***************************************************************************)
(* Strings are sequences of one-character strings, so that str.strip()     *)
(* and truthiness are computed, not assumed.                               *)
(***************************************************************************)
RECURSIVE LStrip(_)
LStrip(s) == IF s # <<>> /\ Head(s) = " " THEN LStrip(Tail(s)) ELSE s

RECURSIVE RStrip(_)
RStrip(s) ==
    IF s # <<>> /\ s[Len(s)] = " " THEN RStrip(SubSeq(s, 1, Len(s) - 1)) ELSE s

Strip(s) == RStrip(LStrip(s))

\* `not reason or not reason.strip()`
IsBlankReason(reason) == reason = <<>> \/ Strip(reason) = <<>>

\* Reasons the callers pass: "", " ", "go"
Reasons == { <<>>, <<" ">>, <<"g", "o">> }

\* Reasons update_observer_health receives (keyword, default None)
HealthReasons == { None, <<>>, <<"l", "o", "s", "t">> }

DefaultFailureReason == "observer reported blindness"
AbortReason == "Observer health lost mid-execution"

(***************************************************************************)
(* ModeController                                                          *)
(***************************************************************************)
OBSERVER == "OBSERVER"
ARMED == "ARMED"
EXECUTING == "EXECUTING"
SystemMode == {OBSERVER, ARMED, EXECUTING}

\* deque(maxlen=MAX_TRANSITION_HISTORY), scaled down
MaxHistory == 2

VARIABLES
    mode,                       \* _mode
    last_transition_reason,     \* _last_transition_reason
    vision_ok,                  \* _vision_ok
    input_locked,               \* _input_locked
    observer_healthy,           \* _observer_healthy
    vision_failed_permanently,  \* _vision_failed_permanently
    failure_reason,             \* _failure_reason
    transition_history,         \* _transition_history
    call                        \* the last call made on the controller and its outcome

mcVars == << mode, last_transition_reason, vision_ok, input_locked,
             observer_healthy, vision_failed_permanently, failure_reason,
             transition_history, call >>

allowed_transitions_loose(current) ==
    CASE current = OBSERVER  -> {ARMED, EXECUTING}
      [] current = ARMED     -> {EXECUTING, OBSERVER}
      [] current = EXECUTING -> {OBSERVER}
      [] OTHER               -> {}

allowed_transitions(current) ==
    CASE current = OBSERVER  -> {ARMED}
      [] current = ARMED     -> {EXECUTING, OBSERVER}
      [] current = EXECUTING -> {OBSERVER}
      [] OTHER               -> {}

\* Outcome of request_transition: the raise site reached, the early return,
\* or the commit.
RequestOutcomeNoHealthGate(target, reason, force) ==
    IF IsBlankReason(reason) THEN "EmptyReason"
    ELSE IF target = mode THEN "NoOp"
    ELSE IF ~force /\ target \notin allowed_transitions(mode) THEN "IllegalTransition"
    ELSE IF target = EXECUTING /\ ~vision_ok THEN "VisionUnavailable"
    ELSE "Committed"

RequestOutcomeNoVisionGate(target, reason, force) ==
    IF IsBlankReason(reason) THEN "EmptyReason"
    ELSE IF target = mode THEN "NoOp"
    ELSE IF ~force /\ target \notin allowed_transitions(mode) THEN "IllegalTransition"
    ELSE IF ~observer_healthy THEN "ObserverUnhealthy"
    ELSE "Committed"

RequestOutcome(target, reason, force) ==
    IF IsBlankReason(reason) THEN "EmptyReason"
    ELSE IF target = mode THEN "NoOp"
    ELSE IF ~force /\ target \notin allowed_transitions(mode) THEN "IllegalTransition"
    ELSE IF ~observer_healthy THEN "ObserverUnhealthy"
    ELSE IF target = EXECUTING /\ ~vision_ok THEN "VisionUnavailable"
    ELSE "Committed"

Raised(outcome) ==
    outcome \in {"EmptyReason", "IllegalTransition", "ObserverUnhealthy",
                 "VisionUnavailable"}

\* _record_transition: append to the bounded deque (the oldest record falls out)
\* (healthy: the value of _observer_healthy when the record is built)
record_transition(history, from_mode, to_mode, reason, forced, healthy) ==
    LET rec == [ from |-> from_mode, to |-> to_mode, reason |-> reason,
                 forced |-> forced, vision_ok |-> vision_ok,
                 observer_healthy |-> healthy ]
    IN  IF Len(history) >= MaxHistory
        THEN Tail(history) \o <<rec>>
        ELSE Append(history, rec)

\* The body of request_transition, shared by arm, execute and disarm.
\* release_after: disarm's release_input(), reached only when no error is raised.
Transition(op, target, reason, force, release_after) ==
    LET outcome == RequestOutcome(target, reason, force) IN
    /\ call' = [ op |-> op, target |-> target, reason |-> reason,
                 force |-> force, result |-> outcome ]
    /\ IF outcome = "Committed"
       THEN /\ mode' = target
            /\ last_transition_reason' = reason
            /\ transition_history' =
                   record_transition(transition_history, mode, target, reason, force,
                                     observer_healthy)
            /\ input_locked' = IF release_after THEN FALSE
                               ELSE IF target = EXECUTING THEN TRUE
                               ELSE input_locked
       ELSE /\ UNCHANGED << mode, last_transition_reason, transition_history >>
            /\ input_locked' = IF release_after /\ ~Raised(outcome) THEN FALSE
                               ELSE input_locked
    /\ UNCHANGED << vision_ok, observer_healthy, vision_failed_permanently,
                    failure_reason >>

request_transition ==
    \E target \in SystemMode, reason \in Reasons, force \in BOOLEAN :
        Transition("request_transition", target, reason, force, FALSE)

arm == \E reason \in Reasons : Transition("arm", ARMED, reason, FALSE, FALSE)

execute == \E reason \in Reasons : Transition("execute", EXECUTING, reason, FALSE, FALSE)

disarm == \E reason \in Reasons : Transition("disarm", OBSERVER, reason, TRUE, TRUE)

\* New value of _observer_healthy in update_observer_health
NextObserverHealthRecovering(healthy) == healthy
NextObserverHealth(healthy) ==
    IF ~healthy /\ observer_healthy THEN FALSE ELSE observer_healthy

\* Whether update_observer_health reaches _force_abort
AbortsExecution(healthy) ==
    ~healthy /\ observer_healthy /\ mode = EXECUTING

update_observer_health ==
    \E healthy \in BOOLEAN, reason \in HealthReasons :
        LET tripped == ~healthy /\ observer_healthy IN
        /\ call' = [ op |-> "update_observer_health", healthy |-> healthy,
                     reason |-> reason, result |-> "Returned" ]
        /\ observer_healthy' = NextObserverHealth(healthy)
        /\ vision_failed_permanently' = (tripped \/ vision_failed_permanently)
        /\ failure_reason' =
               IF tripped
               THEN (IF reason = None \/ reason = <<>>
                     THEN DefaultFailureReason ELSE reason)
               ELSE failure_reason
        /\ IF AbortsExecution(healthy)
           THEN \* _force_abort
                /\ mode' = OBSERVER
                /\ last_transition_reason' = AbortReason
                /\ input_locked' = FALSE
                /\ transition_history' =
                       record_transition(transition_history, mode, OBSERVER,
                                         AbortReason, TRUE, observer_healthy')
           ELSE UNCHANGED << mode, last_transition_reason, input_locked,
                             transition_history >>
        /\ UNCHANGED vision_ok

update_vision_status ==
    \E ok \in BOOLEAN :
        /\ call' = [ op |-> "update_vision_status", ok |-> ok, result |-> "Returned" ]
        /\ vision_failed_permanently' = (~ok \/ vision_failed_permanently)
        /\ vision_ok' = (ok /\ ~vision_failed_permanently')
        /\ UNCHANGED << mode, last_transition_reason, input_locked, observer_healthy,
                        failure_reason, transition_history >>

lock_input ==
    /\ call' = [ op |-> "lock_input", result |-> "Returned" ]
    /\ input_locked' = TRUE
    /\ UNCHANGED << mode, last_transition_reason, vision_ok, observer_healthy,
                    vision_failed_permanently, failure_reason, transition_history >>

release_input ==
    /\ call' = [ op |-> "release_input", result |-> "Returned" ]
    /\ input_locked' = FALSE
    /\ UNCHANGED << mode, last_transition_reason, vision_ok, observer_healthy,
                    vision_failed_permanently, failure_reason, transition_history >>

\* get_authority_snapshot (read-only): the fields the claims read
get_authority_snapshot ==
    [ mode |-> mode, observer_healthy |-> observer_healthy, vision_ok |-> vision_ok,
      vision_failed_permanently |-> vision_failed_permanently,
      failure_reason |-> failure_reason, input_locked |-> input_locked,
      transition_history_depth |-> Len(transition_history) ]

mcInit ==
    /\ mode = OBSERVER
    /\ last_transition_reason = None
    /\ vision_ok = FALSE
    /\ input_locked = FALSE
    /\ observer_healthy = TRUE
    /\ vision_failed_permanently = FALSE
    /\ failure_reason = None
    /\ transition_history = <<>>
    /\ call = [ op |-> "__init__", result |-> "Returned" ]

(***************************************************************************)
(* InputTracker, AuthorityPolicy, InputArbitrator                          *)
(*                                                                         *)
(* Time is counted in fifths of a second (0.2 s); time.monotonic() and     *)
(* time.time() are read from the one clock `now`.                          *)
(***************************************************************************)
MaxTime == 17

\* 0.2 s, the SOC action window of InputTracker.classify_input
ClassifyWindow == 1
\* 3.0 s, InputArbitrator.EMERGENCY_RECLAIM_TIMEOUT_SECONDS
EMERGENCY_RECLAIM_TIMEOUT == 15

\* Optional[float] None of the two _last_soc_action_ts fields
NoneTs == -1

SOC == "SOC"
HUMAN == "HUMAN"

CONTINUE == "CONTINUE"
YIELD == "YIELD"
ABORT == "ABORT"
\* the members the enum defines
AuthorityDecision == {CONTINUE, YIELD, ABORT}

VARIABLES
    now,                         \* the clock
    tracker_last_soc_action_ts,  \* InputTracker._last_soc_action_ts
    last_soc_action_ts,          \* InputArbitrator._last_soc_action_ts
    forced_release,              \* InputArbitrator._forced_release
    arb_call,                    \* the last call made on the arbitrator and its outcome
    reclaimed                    \* a forced release or a Release/Abort decision has
                                 \* happened while a step of operate() was in progress

arbVars == << now, tracker_last_soc_action_ts, last_soc_action_ts,
              forced_release, arb_call, reclaimed >>

\* InputTracker.classify_input
classify_input_closed_window(event_ts) ==
    IF tracker_last_soc_action_ts = NoneTs THEN HUMAN
    ELSE IF (event_ts - tracker_last_soc_action_ts) >= ClassifyWindow THEN HUMAN
    ELSE SOC

classify_input(event_ts) ==
    IF tracker_last_soc_action_ts = NoneTs THEN HUMAN
    ELSE IF (event_ts - tracker_last_soc_action_ts) > ClassifyWindow THEN HUMAN
    ELSE SOC

\* AuthorityPolicy.decide
decide_trusting(human_intervened, high_risk, soc_confident) ==
    IF ~human_intervened THEN CONTINUE
    ELSE IF high_risk THEN ABORT
    ELSE IF ~soc_confident THEN YIELD
    ELSE CONTINUE

decide(human_intervened, high_risk, soc_confident) ==
    IF ~human_intervened THEN CONTINUE
    ELSE IF high_risk THEN ABORT
    ELSE IF ~soc_confident THEN YIELD
    ELSE YIELD

\* Attribute lookup on the enum class: the member, or AttributeError raised
EnumMember(name) ==
    IF name \in AuthorityDecision
    THEN [ raised |-> FALSE, value |-> name ]
    ELSE [ raised |-> TRUE, value |-> "AttributeError" ]

\* InputArbitrator.evaluate: what it returns or raises
EvaluateOutcome(input_event_ts, high_risk, soc_confident) ==
    LET source == classify_input(input_event_ts) IN
    IF forced_release THEN EnumMember("RELEASE")
    ELSE IF source = HUMAN
         THEN [ raised |-> FALSE, value |-> decide(TRUE, high_risk, soc_confident) ]
         ELSE EnumMember("CONTINUE")

\* The deadman test of _watchdog_loop
WatchdogTripsInverted(t) ==
    /\ last_soc_action_ts # NoneTs
    /\ (t - last_soc_action_ts) < EMERGENCY_RECLAIM_TIMEOUT

WatchdogTrips(t) ==
    /\ last_soc_action_ts # NoneTs
    /\ (t - last_soc_action_ts) > EMERGENCY_RECLAIM_TIMEOUT

arbInit ==
    /\ now = 0
    /\ tracker_last_soc_action_ts = NoneTs
    /\ last_soc_action_ts = NoneTs
    /\ forced_release = FALSE
    /\ arb_call = [ op |-> "__init__" ]
    /\ reclaimed = FALSE

(***************************************************************************)
(* operate(): the step loop                                                *)
(***************************************************************************)
\* operations of one batch
MaxOps == 2

\* time.sleep(1) at the top of each step
StepSleep == 5

OpTypes == {"press", "hotkey", "write", "click", "done", "scroll"}
Primitives == {"press", "hotkey", "write", "click"}

VARIABLES
    pc,              \* position of the main thread in operate()
    steps,           \* operations of the batch taken so far
    op_type,         \* op_type of the current operation
    wake,            \* when the pending time.sleep(1) returns
    decision,        \* the local `decision`
    polled_release,  \* the _forced_release that the step's evaluate read
    issued,          \* input primitives issued to operating_system
    journal_events   \* events handed to journal.record

loopVars == << pc, steps, op_type, wake, decision, polled_release, issued,
              journal_events >>

\* a step of the batch has begun and not ended
StepInProgress ==
    pc \in {"sleep", "evaluate", "branch", "mark", "act", "record_complete"}

loopInit ==
    /\ pc = "for"
    /\ steps = 0
    /\ op_type = None
    /\ wake = NoneTs
    /\ decision = None
    /\ polled_release = FALSE
    /\ issued = 0
    /\ journal_events = <<>>


(***************************************************************************)
(* Operations of the arbitrator                                            *)
(***************************************************************************)
Tick ==
    /\ now < MaxTime
    /\ now' = now + 1
    /\ UNCHANGED << tracker_last_soc_action_ts, last_soc_action_ts, forced_release,
                    arb_call, reclaimed >>

\* InputArbitrator.soc_action_started (with InputTracker.mark_soc_action)
MarkSocAction ==
    /\ tracker_last_soc_action_ts' = now
    /\ last_soc_action_ts' = now
    /\ UNCHANGED << now, forced_release, reclaimed >>

soc_action_started ==
    /\ MarkSocAction
    /\ arb_call' = [ op |-> "soc_action_started" ]

evaluate ==
    \E input_event_ts \in 0..MaxTime, high_risk \in BOOLEAN, soc_confident \in BOOLEAN :
        LET out == EvaluateOutcome(input_event_ts, high_risk, soc_confident) IN
        /\ arb_call' = [ op |-> "evaluate",
                         source |-> classify_input(input_event_ts),
                         high_risk |-> high_risk, soc_confident |-> soc_confident,
                         forced_release |-> forced_release,
                         raised |-> out.raised, value |-> out.value ]
        /\ UNCHANGED << now, tracker_last_soc_action_ts, last_soc_action_ts,
                        forced_release, reclaimed >>

\* InputTracker.classify_input called with any event timestamp
tracker_classify_input ==
    \E event_ts \in 0..MaxTime :
        /\ arb_call' = [ op |-> "classify_input", event_ts |-> event_ts,
                         source |-> classify_input(event_ts) ]
        /\ UNCHANGED << now, tracker_last_soc_action_ts, last_soc_action_ts,
                        forced_release, reclaimed >>

emergency_reclaim ==
    /\ forced_release' = TRUE
    /\ reclaimed' = (reclaimed \/ StepInProgress)
    /\ arb_call' = [ op |-> "emergency_reclaim" ]
    /\ UNCHANGED << now, tracker_last_soc_action_ts, last_soc_action_ts >>

clear_emergency_reclaim ==
    /\ forced_release' = FALSE
    /\ arb_call' = [ op |-> "clear_emergency_reclaim" ]
    /\ UNCHANGED << now, tracker_last_soc_action_ts, last_soc_action_ts, reclaimed >>

\* One pass of _watchdog_loop after its sleep; the daemon thread polls for ever.
watchdog_loop ==
    LET trips == WatchdogTrips(now) IN
    /\ forced_release' = (trips \/ forced_release)
    /\ reclaimed' = (reclaimed \/ (trips /\ StepInProgress))
    /\ arb_call' = [ op |-> "watchdog_loop", tripped |-> trips ]
    /\ UNCHANGED << now, tracker_last_soc_action_ts, last_soc_action_ts >>


(***************************************************************************)
(* Steps of operate()                                                      *)
(***************************************************************************)
\* journal.record(event=..., ...): the ledger takes the entry
JournalRecord(event) == Append(journal_events, event)

\* `for operation in operations:` with an operation left; time.sleep(1) begins
operate_next_operation ==
    /\ pc = "for"
    /\ steps < MaxOps
    /\ \E t \in OpTypes : op_type' = t
    /\ steps' = steps + 1
    /\ wake' = now + StepSleep
    /\ pc' = "sleep"
    /\ UNCHANGED << decision, polled_release, issued, journal_events, arbVars >>

\* the batch is exhausted: `return False`
operate_return_false ==
    /\ pc = "for"
    /\ pc' = "returned_false"
    /\ UNCHANGED << steps, op_type, wake, decision, polled_release, issued,
                    journal_events, arbVars >>

\* the sleep has returned; journal.record(event="operation_start", ...)
operate_record_start ==
    /\ pc = "sleep"
    /\ now >= wake
    /\ wake' = NoneTs
    /\ journal_events' = JournalRecord("operation_start")
    /\ pc' = "evaluate"
    /\ UNCHANGED << steps, op_type, decision, polled_release, issued, arbVars >>

\* Where the main thread goes after the poll
AfterPoll(out) == IF out.raised THEN "raised" ELSE "branch"

\* decision = input_arbitrator.evaluate(input_event_ts=time.monotonic(),
\*                                      high_risk=False, soc_confident=True)
\* An exception of evaluate leaves operate() (the call is outside the try).
operate_evaluate ==
    /\ pc = "evaluate"
    /\ LET out == EvaluateOutcome(now, FALSE, TRUE) IN
        /\ arb_call' = [ op |-> "evaluate", source |-> classify_input(now),
                         high_risk |-> FALSE, soc_confident |-> TRUE,
                         forced_release |-> forced_release,
                         raised |-> out.raised, value |-> out.value ]
        /\ decision' = IF out.raised THEN decision ELSE out.value
        /\ polled_release' = forced_release
        /\ reclaimed' = (reclaimed \/ (~out.raised /\ out.value \in {"RELEASE", ABORT}))
        /\ pc' = AfterPoll(out)
    /\ UNCHANGED << steps, op_type, wake, issued, journal_events, now,
                    tracker_last_soc_action_ts, last_soc_action_ts, forced_release >>

\* the two `if decision == ...: journal.record(...); return True` tests
operate_branch ==
    /\ pc = "branch"
    /\ IF decision = YIELD
       THEN /\ journal_events' = JournalRecord("authority_yield")
            /\ pc' = "returned_true"
       ELSE IF decision = ABORT
       THEN /\ journal_events' = JournalRecord("authority_abort")
            /\ pc' = "returned_true"
       ELSE /\ pc' = "mark"
            /\ UNCHANGED journal_events
    /\ UNCHANGED << steps, op_type, wake, decision, polled_release, issued, arbVars >>

\* input_arbitrator.soc_action_started()
operate_mark ==
    /\ pc = "mark"
    /\ MarkSocAction
    /\ arb_call' = [ op |-> "soc_action_started" ]
    /\ pc' = "act"
    /\ UNCHANGED << steps, op_type, wake, decision, polled_release, issued,
                    journal_events >>

\* the dispatch on op_type: press, write or mouse on operating_system, or
\* the "done" / unknown-operation returns
operate_act ==
    /\ pc = "act"
    /\ IF op_type \in Primitives
       THEN /\ issued' = issued + 1
            /\ pc' = "record_complete"
            /\ UNCHANGED journal_events
       ELSE /\ journal_events' = JournalRecord(IF op_type = "done"
                                              THEN "objective_complete"
                                              ELSE "unknown_operation")
            /\ pc' = "returned_true"
            /\ UNCHANGED issued
    /\ UNCHANGED << steps, op_type, wake, decision, polled_release, arbVars >>

\* journal.record(event="operation_complete", ...); next iteration
operate_record_complete ==
    /\ pc = "record_complete"
    /\ journal_events' = JournalRecord("operation_complete")
    /\ pc' = "for"
    /\ UNCHANGED << steps, op_type, wake, decision, polled_release, issued, arbVars >>

(***************************************************************************)
(* ActionJournal: the hash-chained ledger                                  *)
(*                                                                         *)
(* A ledger entry is a dict; here a record of the keys the journal reads   *)
(* or writes plus one payload key, an absent key holding None.  A digest   *)
(* is the text of what was hashed, so that two digests are equal exactly   *)
(* when the canonical serializations are.                                  *)
(***************************************************************************)
MaxLedger == 3

\* "0" * 64
GENESIS == "0000000000000000000000000000000000000000000000000000000000000000"

INTENT == "INTENT"
EFFECT == "EFFECT"
SESSION_START == "SESSION_START"
SESSION_SEAL == "SESSION_SEAL"

VARIABLES
    ledger,             \* the lines of action_audit.jsonl, oldest first
    last_hash,          \* self.last_hash
    last_intent_hash,   \* self.last_intent_hash
    j_call              \* the last call of the journal and how it ended

jVars == << ledger, last_hash, last_intent_hash, j_call >>

\* One "key":value member of the serialization; an absent key has none
Member(key, value) == IF value = None THEN "" ELSE key \o ":" \o value \o ","

\* json.dumps(payload, sort_keys=True, separators=(',', ':'))
canonical_json(payload) ==
    "{" \o Member("data", payload.data)
        \o Member("hash", payload.hash)
        \o Member("intent_ref", payload.intent_ref)
        \o Member("phase", payload.phase)
        \o Member("prev_hash", payload.prev_hash)
        \o Member("type", payload.type) \o "}"

\* hashlib.sha256(serialized.encode()).hexdigest()
canonical_hash(payload) == "sha256(" \o canonical_json(payload) \o ")"

\* A dict built by the caller: no chaining keys, unless the caller put one
NewEntry(phase, type, data, intent_ref) ==
    [ phase |-> phase, type |-> type, data |-> data,
      intent_ref |-> intent_ref, prev_hash |-> None, hash |-> None ]

\* The journal as a value: file, chain head, pending marker
JournalState(lines, head, pending) ==
    [ ledger |-> lines, last_hash |-> head, last_intent_hash |-> pending ]

\* Step 1 of record: INTENT or SESSION_SEAL while an INTENT is pending
RefusesWhilePendingNever(entry, pending) == FALSE
RefusesWhilePending(entry, pending) ==
    (entry.phase = INTENT \/ entry.type = SESSION_SEAL) /\ pending # None

\* Step 2 of record: the intent_ref the entry is hashed and stored with
BoundIntentRefOfCaller(entry, pending) == entry.intent_ref
BoundIntentRef(entry, pending) ==
    IF entry.phase = EFFECT THEN pending ELSE entry.intent_ref

\* Steps 3 and 4 of record: the dict that _canonical_hash is given
HashedPayload(entry, pending, head) ==
    [ entry EXCEPT !.intent_ref = BoundIntentRef(entry, pending),
                   !.prev_hash = head ]

\* ActionJournal.record on journal j: the journal afterwards, what was
\* raised (None when the call returned) and the dict as the call left it.
\* serializable: json.dumps accepts the entry; disk_ok: open/write/fsync
\* succeed.
RecordOutcome(j, entry, serializable, disk_ok) ==
    LET pending == j.last_intent_hash
        payload == HashedPayload(entry, pending, j.last_hash)
        resolved == IF entry.phase = EFFECT THEN None ELSE pending
        current_hash == canonical_hash(payload)
        stored == [ payload EXCEPT !.hash = current_hash ]
        marker == IF entry.phase = INTENT THEN current_hash ELSE resolved
    IN  IF RefusesWhilePending(entry, pending)
        THEN [ journal |-> j, raised |-> "RuntimeError", step |-> "unresolved_intent",
               entry |-> entry ]
        ELSE IF entry.phase = EFFECT /\ pending = None
        THEN [ journal |-> j, raised |-> "RuntimeError", step |-> "effect_without_intent",
               entry |-> entry ]
        ELSE IF ~serializable
        THEN [ journal |-> JournalState(j.ledger, j.last_hash, resolved),
               raised |-> "RuntimeError", step |-> "canonical_hash",
               entry |-> payload ]
        ELSE IF ~disk_ok
        THEN [ journal |-> JournalState(j.ledger, current_hash, marker),
               raised |-> "SystemExit", step |-> "persist",
               entry |-> stored ]
        ELSE [ journal |-> JournalState(Append(j.ledger, stored), current_hash, marker),
               raised |-> None, step |-> "returned",
               entry |-> stored ]

\* The journal object of this module
ThisJournal == JournalState(ledger, last_hash, last_intent_hash)

\* Dicts the callers pass: fresh ones, with or without a phase and an
\* intent_ref of their own, and dicts that were recorded before (record
\* writes its keys into the caller's dict).
EntryInputs ==
    { NewEntry(ph, None, "a", ref) :
        ph \in {None, INTENT, EFFECT}, ref \in {None, "mine"} }
    \cup { ledger[i] : i \in 1..Len(ledger) }

SealReasons == {"NORMAL"}

\* A call of the journal; a call that would append needs room in the file
JournalCall(op, entry, serializable, disk_ok) ==
    LET out == RecordOutcome(ThisJournal, entry, serializable, disk_ok) IN
    /\ j_call.raised # "SystemExit"
    /\ out.raised = None => Len(ledger) < MaxLedger
    /\ ledger' = out.journal.ledger
    /\ last_hash' = out.journal.last_hash
    /\ last_intent_hash' = out.journal.last_intent_hash
    /\ j_call' = [ op |-> op, given |-> entry, pending |-> last_intent_hash,
                   serializable |-> serializable, disk_ok |-> disk_ok,
                   raised |-> out.raised, step |-> out.step, entry |-> out.entry ]

\* ActionJournal.record(entry)
record ==
    \E entry \in EntryInputs, serializable \in BOOLEAN, disk_ok \in BOOLEAN :
        JournalCall("record", entry, serializable, disk_ok)

\* ActionJournal.seal(reason)
seal ==
    \E reason \in SealReasons, disk_ok \in BOOLEAN :
        JournalCall("seal", NewEntry(None, SESSION_SEAL, reason, None), TRUE, disk_ok)

\* ActionJournal.__init__: _initialize_session has recorded SESSION_START
jInit ==
    LET out == RecordOutcome(JournalState(<< >>, GENESIS, None),
                             NewEntry(None, SESSION_START, "t0", None), TRUE, TRUE) IN
    /\ ledger = out.journal.ledger
    /\ last_hash = out.journal.last_hash
    /\ last_intent_hash = out.journal.last_intent_hash
    /\ j_call = [ op |-> "__init__", given |-> out.entry, pending |-> None,
                  serializable |-> TRUE, disk_ok |-> TRUE,
                  raised |-> None, step |-> "returned", entry |-> out.entry ]

(***************************************************************************)
(* PolicyEngine and the execution gate of AccessibilityBackend             *)
(*                                                                         *)
(* Application names, roles and labels are sequences of characters, so     *)
(* that lower(), `in` and the pattern search are computed.  An accessor    *)
(* of the node yields a string, None, or raises.                           *)
(***************************************************************************)
\* What an accessor of the node gives besides a string: None, or an error
NoValue == << "<None>" >>
Raises == << "<raises>" >>

ALLOW == "ALLOW"
DENY == "DENY"
REQUIRE_HUMAN_CONFIRMATION == "REQUIRE_HUMAN_CONFIRMATION"

\* str.lower() on the letters that occur
LowerChar(c) ==
    CASE c = "D" -> "d" [] c = "E" -> "e" [] c = "F" -> "f" [] c = "S" -> "s"
      [] c = "T" -> "t" [] c = "X" -> "x" [] OTHER -> c

Lower(s) == [ i \in 1..Len(s) |-> LowerChar(s[i]) ]

\* `sub in s` and, for a literal pattern, pat.search(s)
Contains(s, sub) ==
    \E i \in 0..(Len(s) - Len(sub)) : SubSeq(s, i + 1, i + Len(sub)) = sub

s_unknown == << "u", "n", "k", "n", "o", "w", "n" >>
s_text == << "t", "e", "x", "t" >>
s_entry == << "e", "n", "t", "r", "y" >>
s_firefox == << "f", "i", "r", "e", "f", "o", "x" >>
s_gedit == << "g", "e", "d", "i", "t" >>
s_xterm == << "x", "t", "e", "r", "m" >>
s_button == << "b", "u", "t", "t", "o", "n" >>
s_password_text == << "p", "a", "s", "s", "w", "o", "r", "d", " ", "t", "e", "x", "t" >>
s_terminal == << "t", "e", "r", "m", "i", "n", "a", "l" >>
s_delete == << "d", "e", "l", "e", "t", "e" >>
s_remove == << "r", "e", "m", "o", "v", "e" >>
s_format == << "f", "o", "r", "m", "a", "t" >>
s_sudo == << "s", "u", "d", "o" >>
s_erase == << "e", "r", "a", "s", "e" >>
s_settings == << "s", "e", "t", "t", "i", "n", "g", "s" >>

\* self.denied_roles
denied_roles ==
    { s_terminal, s_password_text, << "a", "l", "e", "r", "t" >>,
      << "d", "i", "a", "l", "o", "g" >> }

\* self.high_risk_name_patterns
high_risk_name_patterns == { s_delete, s_remove, s_format, s_sudo, s_erase }

\* self.allowed_apps
allowed_apps ==
    { << "g", "o", "o", "g", "l", "e", "-", "c", "h", "r", "o", "m", "e" >>,
      s_firefox,
      << "l", "i", "b", "r", "e", "o", "f", "f", "i", "c", "e" >>,
      s_gedit }

\* `value or default` for a str-or-None value
OrDefault(value, default) == IF value = NoValue \/ value = << >> THEN default ELSE value

\* `role in self.denied_roles`
RoleForbiddenNever(role) == FALSE
RoleForbidden(role) == role \in denied_roles

\* The decision of the except clause
InternalErrorDecisionOpen == ALLOW
InternalErrorDecision == DENY

\* PolicyEngine.validate(node, action): the pair it returns
ValidateOutcome(node, action) ==
    IF Raises \in {node.role, node.name, node.app}
    THEN [ decision |-> InternalErrorDecision, reason |-> "Policy internal error" ]
    ELSE LET role == Lower(OrDefault(node.role, s_unknown))
             name == Lower(OrDefault(node.name, << >>))
             app == IF node.app = NoValue \/ node.app = << >>
                    THEN s_unknown ELSE Lower(node.app)
         IN  IF app = s_unknown
             THEN [ decision |-> DENY, reason |-> "Application identity unavailable" ]
             ELSE IF app \notin allowed_apps
             THEN [ decision |-> DENY, reason |-> "Unauthorized application" ]
             ELSE IF RoleForbidden(role)
             THEN [ decision |-> DENY, reason |-> "Forbidden role" ]
             ELSE IF action = "type" /\ ~Contains(role, s_text) /\ ~Contains(role, s_entry)
             THEN [ decision |-> DENY, reason |-> "Semantic violation" ]
             ELSE IF \E pat \in high_risk_name_patterns : Contains(name, pat)
             THEN [ decision |-> REQUIRE_HUMAN_CONFIRMATION,
                    reason |-> "High-risk label detected" ]
             ELSE [ decision |-> ALLOW, reason |-> None ]

\* What node.getApplication() and app_obj.name give
AppNames ==
    { NoValue, Raises, << >>, s_firefox, << "F", "i", "r", "e", "f", "o", "x" >>,
      s_xterm }

\* What node.getRoleName() gives
RoleNames ==
    { NoValue, Raises, s_button, s_text, s_entry, s_password_text,
      << "T", "e", "r", "m", "i", "n", "a", "l" >> }

\* What node.name gives
Labels ==
    { NoValue, Raises, << "o", "k" >>,
      << "D", "e", "l", "e", "t", "e", " ", "a", "l", "l" >>,
      << "x", "s", "u", "d", "o" >>,
      << "S", "e", "t", "t", "i", "n", "g", "s" >> }

Nodes == [ app : AppNames, role : RoleNames, name : Labels ]

\* The nodes handed to the execution gate
GateNodes ==
    [ app : { s_firefox, s_xterm },
      role : { s_button, s_text, s_password_text },
      name : { << "o", "k" >>, << "D", "e", "l", "e", "t", "e", " ", "a", "l", "l" >> } ]

ActionTypes == { "click", "type" }

VARIABLES
    pol_call      \* the last call of validate or of the execution gate, and
                  \* how it ended

polVars == << pol_call >>

\* PolicyEngine.validate
validate ==
    \E node \in Nodes, action \in ActionTypes :
        LET out == ValidateOutcome(node, action) IN
        /\ pol_call' = [ op |-> "validate", node |-> node, action |-> action,
                         decision |-> out.decision, reason |-> out.reason,
                         raised |-> FALSE ]

\* Truthiness of the first member of the pair validate returns
Truthy(value) == value # None /\ value # ""

\* AccessibilityBackend.execute(mode, policy_engine, audit_callback, node,
\* action_type, text) up to the callbacks: what it raises, whether it
\* validated, the phases it hands to audit_callback, whether the action
\* was performed.  hardware_ok: the AT-SPI call succeeds.
ExecuteOutcome(gate_mode, node, action_type, text, hardware_ok) ==
    LET out == ValidateOutcome(node, action_type)
        allowed == out.decision
        acts == /\ hardware_ok
                /\ action_type \in {"click", "type"}
                /\ action_type = "type" => text # None
    IN  IF gate_mode # "ACTIVE"
        THEN [ raised |-> "PermissionError", validated |-> FALSE,
               audit |-> << >>, performed |-> FALSE ]
        ELSE IF ~Truthy(allowed)
        THEN [ raised |-> "PermissionError", validated |-> TRUE,
               audit |-> << >>, performed |-> FALSE ]
        ELSE IF ~acts
        THEN [ raised |-> "RuntimeError", validated |-> TRUE,
               audit |-> << INTENT >>, performed |-> FALSE ]
        ELSE [ raised |-> None, validated |-> TRUE,
               audit |-> << INTENT, EFFECT >>, performed |-> TRUE ]

\* AccessibilityBackend.execute with a callback that keeps no ledger
backend_execute ==
    \E gate_mode \in {"ACTIVE", OBSERVER}, node \in GateNodes,
       action_type \in ActionTypes \cup {"scroll"},
       text \in {None, "abc"}, hardware_ok \in BOOLEAN :
        LET out == ValidateOutcome(node, action_type)
            outcome == ExecuteOutcome(gate_mode, node, action_type, text, hardware_ok)
        IN
        pol_call' = [ op |-> "execute", mode |-> gate_mode, node |-> node,
                      action |-> action_type, text |-> text,
                      decision |-> IF outcome.validated THEN out.decision ELSE None,
                      raised |-> outcome.raised, audit |-> outcome.audit,
                      performed |-> outcome.performed ]

\* The audit callback of the step loop: the ledger records the phase
AuditEntry(phase, action_type) == NewEntry(phase, None, action_type, None)

\* AccessibilityBackend.execute with the ledger behind audit_callback: a
\* record that raises ends the call where it stands
audited_execute ==
    \E gate_mode \in {"ACTIVE", OBSERVER}, node \in GateNodes,
       action_type \in ActionTypes \cup {"scroll"}, hardware_ok \in BOOLEAN :
        LET out == ValidateOutcome(node, action_type)
            outcome == ExecuteOutcome(gate_mode, node, action_type, "abc", hardware_ok)
            intent == RecordOutcome(ThisJournal, AuditEntry(INTENT, action_type), TRUE, TRUE)
            effect == RecordOutcome(intent.journal, AuditEntry(EFFECT, action_type), TRUE, TRUE)
            refused == outcome.audit # << >> /\ intent.raised # None
            after == IF outcome.audit = << >> THEN ThisJournal
                     ELSE IF refused \/ outcome.audit = << INTENT >> THEN intent.journal
                     ELSE effect.journal
        IN
        /\ j_call.raised # "SystemExit"
        /\ Len(after.ledger) <= MaxLedger
        /\ pol_call' = [ op |-> "execute", mode |-> gate_mode, node |-> node,
                         action |-> action_type, text |-> "abc",
                         decision |-> IF outcome.validated THEN out.decision ELSE None,
                         raised |-> IF refused THEN intent.raised ELSE outcome.raised,
                         audit |-> IF refused THEN << >> ELSE outcome.audit,
                         performed |-> ~refused /\ outcome.performed ]
        /\ ledger' = after.ledger
        /\ last_hash' = after.last_hash
        /\ last_intent_hash' = after.last_intent_hash
        /\ UNCHANGED j_call

polInit == pol_call = [ op |-> "__init__" ]

(***************************************************************************)
(* SnapshotProvider, RestoreProvider, RestoreVerifier                      *)
(*                                                                         *)
(* The OS backend is the collaborator of the docstrings: each call either  *)
(* does what it is for, or fails the way its caller provides for.          *)
(***************************************************************************)
Cursors == { << 1, 2 >>, << 5, 5 >> }
Windows == { "W1", "W2" }
ExecutionModes == { OBSERVER, "ACTIVE" }
NoSnapshot == [ captured |-> FALSE ]

VARIABLES
    os_cursor,           \* what get_cursor_position() reads
    os_focus,            \* the id of the focused window
    os_mode,             \* OperatingSystem._execution_mode
    feed,                \* what screenpipe.read() returns
    snapshot,            \* the RestorationSnapshot of the run, or NoSnapshot
    restore_completed,   \* RestoreProvider._restore_completed
    res_call             \* the last capture / restore / verify call

resVars == << os_cursor, os_focus, os_mode, feed, snapshot, restore_completed,
              res_call >>

\* The OS state as a value
OsState(cursor, focus, os_exec_mode) ==
    [ cursor |-> cursor, focus |-> focus, mode |-> os_exec_mode ]

ThisOs == OsState(os_cursor, os_focus, os_mode)

\* screenpipe.read(): the adapter hashes the text of every frame it has
Hashes == { "h1", "h2" }
Feeds ==
    { f \in [ available : BOOLEAN, blind : BOOLEAN, screen_text_hash : Hashes \cup { None } ] :
        f.screen_text_hash = None <=> ~f.available }

\* `not screen_state.get("available") or screen_state.get("blind")`
FeedUnusableNever(screen_state) == FALSE
FeedUnusable(screen_state) == ~screen_state.available \/ screen_state.blind

\* An Optional[int]: no element for None, else the number
NoPid == << >>
Pid(n) == << n >>

\* The text that str() makes of None, which is not None
StrOfNone == "str(None)"

\* str(value) of a string or None
Str(value) == IF value = None THEN StrOfNone ELSE value

\* What get_cursor_position, get_focused_window and get_active_application
\* answer to one capture: they raise, or report these values
CaptureReads(os) ==
    LET reported == [ raises |-> FALSE, cursor |-> os.cursor, id |-> os.focus,
                      process_name |-> "editor", pid |-> NoPid ]
    IN  { reported,
          [ reported EXCEPT !.raises = TRUE ],
          [ reported EXCEPT !.pid = Pid(7) ],
          [ reported EXCEPT !.pid = Pid(0) ],
          [ reported EXCEPT !.id = None ],
          [ reported EXCEPT !.id = "" ],
          [ reported EXCEPT !.process_name = None ],
          [ reported EXCEPT !.process_name = "" ],
          [ reported EXCEPT !.cursor = << -1, os.cursor[2] >> ],
          [ reported EXCEPT !.cursor = << os.cursor[1], -1 >> ] }

\* CursorState.validate
CursorInvalid(cursor) == cursor[1] < 0 \/ cursor[2] < 0

\* FocusState.validate: `not self.window_id`
FocusInvalid(window_id) == window_id = None \/ window_id = ""

\* ApplicationState.validate
ApplicationInvalid(process_name, pid) ==
    \/ process_name = None \/ process_name = ""
    \/ pid # NoPid /\ pid[1] <= 0

\* RestorationSnapshot.validate on the snapshot create() has built
SnapshotInvalid(snap) ==
    \/ snap.execution_mode # OBSERVER
    \/ CursorInvalid(snap.cursor)
    \/ FocusInvalid(snap.focus)
    \/ ApplicationInvalid(snap.process_name, snap.pid)

\* SnapshotProvider.capture_pre_hijack_snapshot; reads: the answers of the
\* three get_* calls of step 3
CaptureOutcome(os, screen_state, reads) ==
    LET built == [ captured |-> TRUE, cursor |-> reads.cursor, focus |-> Str(reads.id),
                   execution_mode |-> os.mode,
                   process_name |-> Str(reads.process_name), pid |-> reads.pid,
                   screen_text_hash |-> screen_state.screen_text_hash ]
    IN  IF os.mode # OBSERVER
        THEN [ raised |-> "SnapshotProviderError", step |-> "mode", snapshot |-> NoSnapshot ]
        ELSE IF FeedUnusable(screen_state)
        THEN [ raised |-> "SnapshotProviderError", step |-> "vision", snapshot |-> NoSnapshot ]
        ELSE IF reads.raises
        THEN [ raised |-> "SnapshotProviderError", step |-> "os_state", snapshot |-> NoSnapshot ]
        ELSE IF SnapshotInvalid(built)
        THEN [ raised |-> "ValueError", step |-> "validate", snapshot |-> NoSnapshot ]
        ELSE [ raised |-> None, step |-> "returned", snapshot |-> built ]

\* How the input-control hooks answer one force_release_all; a hook that
\* is not reached has one answer
ReleaseBehaviours ==
    { b \in [ stop_automated_input : { "ok", "raise" },
              enable_user_input : { "ok", "raise" } ] :
        b.stop_automated_input = "raise" => b.enable_user_input = "ok" }

\* OperatingSystem.force_release_all: the OS afterwards, what was raised,
\* the calls made
ForceReleaseOutcome(os, b) ==
    IF b.stop_automated_input = "raise"
    THEN [ os |-> os, raised |-> None, calls |-> << "stop_automated_input" >> ]
    ELSE IF b.enable_user_input = "raise"
    THEN [ os |-> os, raised |-> None,
           calls |-> << "stop_automated_input", "enable_user_input" >> ]
    ELSE [ os |-> [ os EXCEPT !.mode = OBSERVER ], raised |-> None,
           calls |-> << "stop_automated_input", "enable_user_input",
                        "set_execution_mode" >> ]

\* The optional restoration steps of lines 82-114; OperatingSystem has
\* none of them, a platform backend may provide them
ExtendedSteps ==
    { "set_window_geometry", "set_window_z_order", "restore_browser_state",
      "set_media_playback_position" }

\* The steps of restore that stand in `try: ... except Exception: pass`
SwallowedSteps ==
    { "force_release_all", "stop_automated_input", "enable_user_input" }
        \cup ExtendedSteps

\* How the backend answers the calls of one restore.  force_release_all
\* is a method of OperatingSystem, so the hasattr test of line 59 holds.
\* failed: the input-control hook or the extended step that raises, the
\* extended step being one the backend provides and the snapshot holds
\* metadata for.
RestoreBehaviours ==
    { b \in [ force_release_all : { "ok", "raise" },
              failed : { None },
              set_cursor_position : { "ok", "raise" },
              focus_window : { "true", "false", "raise" },
              activate_application : { "true", "false", "raise", "not called" },
              activated_window : Windows \cup { None },
              set_execution_mode : { "ok", "raise" },
              get_cursor_position : { "ok", "raise" } ] :
        /\ b.activate_application = "not called" <=> b.focus_window = "true"
        /\ b.activated_window = None <=> b.activate_application # "true"
        \* a call that restore does not reach has one answer
        /\ b.set_cursor_position = "raise" => b.focus_window = "true"
        /\ (b.set_cursor_position = "raise"
               \/ b.activate_application \in { "false", "raise" }) =>
              b.set_execution_mode = "ok"
        /\ (b.set_cursor_position = "raise"
               \/ b.activate_application \in { "false", "raise" }
               \/ b.set_execution_mode = "raise") =>
              b.get_cursor_position = "ok" }
    \cup
    \* one failure of a swallowed step at a time, the later calls
    \* answering well
    { [ force_release_all |-> "ok", failed |-> step, set_cursor_position |-> "ok",
        focus_window |-> "true", activate_application |-> "not called",
        activated_window |-> None, set_execution_mode |-> "ok",
        get_cursor_position |-> "ok" ] :
        step \in SwallowedSteps \ { "force_release_all" } }

\* The swallowed step that raises in one restore, None when none does
FailedStep(b) ==
    IF b.force_release_all = "raise" THEN "force_release_all" ELSE b.failed

\* `except Exception: pass` of lines 61, 67, 73, 89, 98, 104, 113
SwallowsNone(step) == FALSE
Swallows(step) == step \in SwallowedSteps

\* The idempotency guard: `if self._restore_completed: return`
AlreadyRestoredNever(completed) == FALSE
AlreadyRestored(completed) == completed

\* Whether step 4 of restore counts the window as focused
FocusedAlways(b) == TRUE
Focused(b) == b.focus_window = "true"

\* RestoreProvider.restore(snapshot) with _verify_post_restore: the OS
\* afterwards, what was raised, the completed flag, the calls issued
RestoreOutcome(os, snap, completed, b) ==
    LET safety == << "force_release_all", "stop_automated_input", "enable_user_input" >>
                  \o (IF b.failed \in ExtendedSteps THEN << b.failed >> ELSE << >>)
        os0 == IF b.force_release_all = "ok" THEN [ os EXCEPT !.mode = OBSERVER ] ELSE os
        os1 == [ os0 EXCEPT !.cursor = snap.cursor ]
        os2 == IF b.focus_window = "true" THEN [ os1 EXCEPT !.focus = snap.focus ] ELSE os1
        os3 == IF ~Focused(b) /\ b.activate_application = "true"
               THEN [ os2 EXCEPT !.focus = b.activated_window ] ELSE os2
        os4 == [ os3 EXCEPT !.mode = OBSERVER ]
        to_focus == safety \o << "set_cursor_position", "focus_window" >>
        to_mode == IF Focused(b) THEN to_focus \o << "set_execution_mode" >>
                   ELSE to_focus \o << "activate_application", "set_execution_mode" >>
    IN  IF AlreadyRestored(completed)
        THEN [ os |-> os, raised |-> None, completed |-> TRUE, calls |-> << >> ]
        ELSE IF FailedStep(b) # None /\ ~Swallows(FailedStep(b))
        THEN [ os |-> os0, raised |-> "Exception", completed |-> FALSE,
               calls |-> safety ]
        ELSE IF b.set_cursor_position # "ok"
        THEN [ os |-> os0, raised |-> "RestorationError", completed |-> FALSE,
               calls |-> safety \o << "set_cursor_position" >> ]
        ELSE IF ~Focused(b) /\ b.activate_application # "true"
        THEN [ os |-> os2, raised |-> "RestorationError", completed |-> FALSE,
               calls |-> to_focus \o << "activate_application" >> ]
        ELSE IF b.set_execution_mode # "ok"
        THEN [ os |-> os3, raised |-> "RestorationError", completed |-> FALSE,
               calls |-> to_mode ]
        ELSE IF os4.mode # OBSERVER
                \/ b.get_cursor_position # "ok"
                \/ os4.cursor # snap.cursor
        THEN [ os |-> os4, raised |-> "RestorationError", completed |-> FALSE,
               calls |-> to_mode \o << "get_execution_mode", "get_cursor_position" >> ]
        ELSE [ os |-> os4, raised |-> None, completed |-> TRUE,
               calls |-> to_mode \o << "get_execution_mode", "get_cursor_position",
                                      "get_focused_window" >> ]

\* abs()
Abs(n) == IF n < 0 THEN -n ELSE n

\* RestoreVerifier._within_tolerance
within_tolerance(actual, expected, cursor_tol) ==
    /\ Abs(actual[1] - expected[1]) <= cursor_tol
    /\ Abs(actual[2] - expected[2]) <= cursor_tol

\* cursor_tolerance_px of RestoreVerifier(os_backend=operating_system)
DefaultCursorTolerance == 0

\* screenpipe of RestoreVerifier(os_backend=operating_system), and a
\* verifier that is given the adapter
DefaultScreenpipe == None
Screenpipes == { DefaultScreenpipe, "ScreenpipeAdapter" }

\* RestoreVerifier._verify_screen_hash; screen: what screenpipe.read()
\* returns, which raises when the adapter is blind
ScreenHashMismatch(snap, screenpipe, screen) ==
    IF screenpipe = None
    THEN FALSE
    ELSE \/ screen.blind
         \/ /\ snap.screen_text_hash # None
            /\ screen.screen_text_hash # snap.screen_text_hash

\* RestoreVerifier.verify(snapshot); os_reads_ok: get_cursor_position and
\* get_focused_window_id return.  The checks of lines 118-164 swallow
\* their own errors.
VerifyOutcome(os, snap, cursor_tol, screenpipe, screen, os_reads_ok) ==
    IF os.mode # OBSERVER
    THEN [ raised |-> "RestorationVerificationError", step |-> "mode" ]
    ELSE IF ~os_reads_ok \/ ~within_tolerance(os.cursor, snap.cursor, cursor_tol)
    THEN [ raised |-> "RestorationVerificationError", step |-> "cursor" ]
    ELSE IF os.focus # snap.focus
    THEN [ raised |-> "RestorationVerificationError", step |-> "focus" ]
    ELSE IF ScreenHashMismatch(snap, screenpipe, screen)
    THEN [ raised |-> "RestorationVerificationError", step |-> "screen" ]
    ELSE [ raised |-> None, step |-> "returned" ]

\* capture_pre_hijack_snapshot, once per run
capture_pre_hijack_snapshot ==
    \E reads \in CaptureReads(ThisOs) :
        LET out == CaptureOutcome(ThisOs, feed, reads) IN
        /\ snapshot = NoSnapshot
        /\ snapshot' = out.snapshot
        /\ res_call' = [ op |-> "capture", raised |-> out.raised, step |-> out.step,
                         calls |-> << >>, reads |-> reads ]
        /\ UNCHANGED << os_cursor, os_focus, os_mode, feed, restore_completed >>

\* Automated actions and other writers of the workspace: the cursor, the
\* focused window and the execution mode change
os_mutation ==
    \E cursor \in Cursors, window \in Windows, os_exec_mode \in ExecutionModes :
        /\ os_cursor' = cursor
        /\ os_focus' = window
        /\ os_mode' = os_exec_mode
        /\ res_call' = [ op |-> "mutation", raised |-> None, step |-> "returned",
                         calls |-> << >> ]
        /\ UNCHANGED << feed, snapshot, restore_completed >>

\* The observation feed comes, goes, or goes blind
feed_update ==
    \E screen_state \in Feeds :
        /\ feed' = screen_state
        /\ res_call' = [ op |-> "feed", raised |-> None, step |-> "returned",
                         calls |-> << >> ]
        /\ UNCHANGED << os_cursor, os_focus, os_mode, snapshot, restore_completed >>

\* RestoreProvider.restore(snapshot)
restore ==
    \E b \in RestoreBehaviours :
        LET out == RestoreOutcome(ThisOs, snapshot, restore_completed, b) IN
        /\ snapshot # NoSnapshot
        /\ os_cursor' = out.os.cursor
        /\ os_focus' = out.os.focus
        /\ os_mode' = out.os.mode
        /\ restore_completed' = out.completed
        /\ res_call' = [ op |-> "restore", raised |-> out.raised,
                         step |-> IF restore_completed THEN "no-op" ELSE "restored",
                         calls |-> out.calls,
                         answers |-> IF restore_completed THEN None
                                     ELSE [ failed |-> b.failed,
                                            set_cursor_position |-> b.set_cursor_position,
                                            focus_window |-> b.focus_window,
                                            activate_application |-> b.activate_application ] ]
        /\ UNCHANGED << feed, snapshot >>

\* OperatingSystem.force_release_all()
force_release_all ==
    \E b \in ReleaseBehaviours :
        LET out == ForceReleaseOutcome(ThisOs, b) IN
        /\ os_mode' = out.os.mode
        /\ res_call' = [ op |-> "force_release_all", raised |-> out.raised,
                         step |-> "returned", calls |-> out.calls ]
        /\ UNCHANGED << os_cursor, os_focus, feed, snapshot, restore_completed >>

\* RestoreVerifier.verify(snapshot)
verify ==
    \E screenpipe \in Screenpipes, os_reads_ok \in BOOLEAN :
        LET out == VerifyOutcome(ThisOs, snapshot, DefaultCursorTolerance, screenpipe,
                                 feed, os_reads_ok)
        IN
        /\ snapshot # NoSnapshot
        /\ res_call' = [ op |-> "verify", raised |-> out.raised, step |-> out.step,
                         calls |-> << >>, screenpipe |-> screenpipe ]
        /\ UNCHANGED << os_cursor, os_focus, os_mode, feed, snapshot, restore_completed >>

resInit ==
    /\ os_cursor = << 1, 2 >>
    /\ os_focus = "W1"
    /\ os_mode = OBSERVER
    /\ feed = [ available |-> TRUE, blind |-> FALSE, screen_text_hash |-> "h1" ]
    /\ snapshot = NoSnapshot
    /\ restore_completed = FALSE
    /\ res_call = [ op |-> "__init__", raised |-> None, step |-> "returned",
                    calls |-> << >> ]

(***************************************************************************)
(* main() of operate.py: capture, the step loop, the handlers, the         *)
(* finally block with restore and verify, the closing seal                 *)
(*                                                                         *)
(* main starts here after journal.open (line 101).  One call of operate()  *)
(* is one step of this part; its own steps are those of SpecLoop.          *)
(***************************************************************************)
MaxBatches == 2

VARIABLES
    main_pc,          \* where main() is: "capture", "loop", "except", "finally",
                      \* "restored", "seal", "returned", "raised"
    main_exc,         \* the exception on its way out of main(), or None
    automated,        \* input primitives issued since main() started
    journal_failed    \* a record call has failed in hashing or in the write

mainVars == << main_pc, main_exc, automated, journal_failed >>

\* journal.record(event=..., ...) as operate.py calls it: an entry without
\* phase whose payload names the event
EventEntry(event) == NewEntry(None, None, event, None)

\* The entry that seal(reason) builds
SealEntry(reason) == NewEntry(None, SESSION_SEAL, reason, None)

\* Which record call of a handler fails, and how: in _canonical_hash
\* (RuntimeError) or in _persist (SystemExit)
NoFault == [ at |-> 0, kind |-> None ]
Faults == { NoFault } \cup [ at : 1..2, kind : { "RuntimeError", "SystemExit" } ]

\* The n-th record call of a handler, on entry e
FaultyRecord(j, e, n, fault) ==
    RecordOutcome(j, e, ~(fault.at = n /\ fault.kind = "RuntimeError"),
                        ~(fault.at = n /\ fault.kind = "SystemExit"))

\* Two record calls in a row; the second is not made when the first raises
RecordTwo(j, e1, e2, fault) ==
    LET first == FaultyRecord(j, e1, 1, fault) IN
    IF first.raised # None
    THEN [ journal |-> first.journal, raised |-> first.raised, made |-> 0 ]
    ELSE LET second == FaultyRecord(first.journal, e2, 2, fault) IN
         [ journal |-> second.journal, raised |-> second.raised,
           made |-> IF second.raised = None THEN 2 ELSE 1 ]

\* The journal of this module takes the value j
JournalBecomes(j) ==
    /\ ledger' = j.ledger
    /\ last_hash' = j.last_hash
    /\ last_intent_hash' = j.last_intent_hash
    /\ UNCHANGED j_call

\* A journal failure is one of _canonical_hash or _persist
JournalFails(raised) == journal_failed' = (journal_failed \/ raised # None)

\* Where an exception raised inside the try of lines 130-143 goes: to a
\* handler when it is an Exception, past them when it is a SystemExit
Handler(raised) == IF raised = "SystemExit" THEN "finally" ELSE "except"

\* main, lines 117-126
main_capture ==
    \E reads \in CaptureReads(ThisOs), fault \in Faults :
        LET out == CaptureOutcome(ThisOs, feed, reads)
            rec == RecordTwo(ThisJournal, EventEntry("snapshot_failed"),
                             SealEntry("SNAPSHOT_FAILURE"), fault)
        IN
        /\ main_pc = "capture"
        /\ res_call' = [ op |-> "capture", raised |-> out.raised, step |-> out.step,
                         calls |-> << >>, reads |-> reads ]
        /\ snapshot' = out.snapshot
        /\ IF out.raised = None
           THEN /\ fault = NoFault
                /\ main_pc' = "loop"
                /\ UNCHANGED << main_exc, journal_failed, jVars >>
           ELSE /\ JournalBecomes(rec.journal)
                /\ JournalFails(rec.raised)
                /\ main_exc' = IF rec.raised # None THEN rec.raised ELSE out.raised
                /\ main_pc' = "raised"
        /\ UNCHANGED << os_cursor, os_focus, os_mode, feed, restore_completed, automated >>

\* What one call of get_next_action and operate() comes to
Batches == { "act", "done", "yield", "evaluate_error", "model_error" }

\* The second event operate() records for a batch
SecondEvent(batch) ==
    CASE batch = "act" -> "operation_complete"
      [] batch = "done" -> "objective_complete"
      [] batch = "yield" -> "authority_yield"
      [] OTHER -> None

\* main, lines 131-143, with operate() of one operation
main_operate ==
    \E batch \in Batches, fault \in Faults, cursor \in Cursors, window \in Windows :
        LET first == FaultyRecord(ThisJournal, EventEntry("operation_start"), 1, fault)
            both == RecordTwo(ThisJournal, EventEntry("operation_start"),
                              EventEntry(SecondEvent(batch)), fault)
            \* the record of "done" is inside the try of operate(): its
            \* RuntimeError is caught there and recorded as operation_abort
            abort == FaultyRecord(both.journal, EventEntry("operation_abort"), 3, fault)
            rec == IF batch = "model_error"
                   THEN [ journal |-> ThisJournal, raised |-> None, made |-> 0 ]
                   ELSE IF batch = "evaluate_error"
                   THEN [ journal |-> first.journal, raised |-> first.raised, made |-> 1 ]
                   ELSE IF batch = "done" /\ both.made = 1 /\ both.raised = "RuntimeError"
                   THEN [ journal |-> abort.journal, raised |-> abort.raised, made |-> 2 ]
                   ELSE both
            acted == batch = "act" /\ rec.made >= 1
            raised == IF rec.raised # None THEN rec.raised
                      ELSE IF batch \in { "model_error", "evaluate_error" }
                      THEN "Exception" ELSE None
        IN
        /\ main_pc = "loop"
        /\ batch = "act" => automated < MaxBatches
        /\ batch = "model_error" => fault = NoFault
        /\ batch = "evaluate_error" => fault.at < 2
        /\ JournalBecomes(rec.journal)
        /\ JournalFails(both.raised)
        /\ IF acted
           THEN /\ os_cursor' = cursor
                /\ os_focus' = window
                /\ automated' = automated + 1
           ELSE UNCHANGED << os_cursor, os_focus, automated >>
        /\ main_exc' = raised
        /\ main_pc' = IF raised # None THEN Handler(raised)
                      ELSE IF batch = "act" THEN "loop" ELSE "finally"
        /\ UNCHANGED << os_mode, feed, snapshot, restore_completed, res_call >>

\* main, lines 145-149
main_except ==
    \E fault \in Faults :
        LET rec == FaultyRecord(ThisJournal, EventEntry("fatal_error"), 1, fault) IN
        /\ main_pc = "except"
        /\ fault.at < 2
        /\ JournalBecomes(rec.journal)
        /\ JournalFails(rec.raised)
        /\ main_exc' = rec.raised
        /\ main_pc' = "finally"
        /\ UNCHANGED << resVars, automated >>

\* main, lines 151-158: restore, then verify when restore returned
main_restore ==
    \E b \in RestoreBehaviours, os_reads_ok \in BOOLEAN :
        LET r == RestoreOutcome(ThisOs, snapshot, restore_completed, b)
            v == VerifyOutcome(r.os, snapshot, DefaultCursorTolerance, DefaultScreenpipe,
                               feed, os_reads_ok)
        IN
        /\ main_pc = "finally"
        /\ snapshot # NoSnapshot
        /\ os_cursor' = r.os.cursor
        /\ os_focus' = r.os.focus
        /\ os_mode' = r.os.mode
        /\ restore_completed' = r.completed
        /\ res_call' = [ op |-> "finally",
                         raised |-> IF r.raised # None THEN r.raised ELSE v.raised,
                         step |-> IF r.raised # None THEN "restore" ELSE v.step,
                         calls |-> r.calls ]
        /\ main_pc' = "restored"
        /\ UNCHANGED << feed, snapshot, automated, main_exc, journal_failed, jVars >>

\* main, lines 159-168: the record of the outcome; the handler of line 163
\* also catches a RuntimeError of the record of line 159
main_record_restoration ==
    \E fault \in Faults :
        LET restored == res_call.raised = None
            verified == FaultyRecord(ThisJournal, EventEntry("restoration_verified"), 1, fault)
            caught == (~restored) \/ verified.raised = "RuntimeError"
            failed == FaultyRecord(IF restored THEN verified.journal ELSE ThisJournal,
                                   EventEntry("restoration_failed"), 2, fault)
            last == IF caught THEN failed ELSE verified
        IN
        /\ main_pc = "restored"
        /\ ~restored => fault.at # 1
        /\ JournalBecomes(last.journal)
        /\ journal_failed' = (journal_failed \/ last.raised # None
                                \/ (restored /\ verified.raised # None))
        /\ main_exc' = IF last.raised # None THEN last.raised ELSE main_exc
        /\ main_pc' = IF last.raised # None THEN "raised" ELSE "seal"
        /\ UNCHANGED << resVars, automated >>

\* main, line 170
main_seal ==
    \E fault \in Faults :
        LET rec == FaultyRecord(ThisJournal, SealEntry("OBJECTIVE_COMPLETE"), 1, fault) IN
        /\ main_pc = "seal"
        /\ fault.at < 2 /\ fault.kind # "RuntimeError"
        /\ JournalBecomes(rec.journal)
        /\ JournalFails(IF rec.step = "persist" THEN rec.raised ELSE None)
        /\ main_exc' = IF rec.raised # None THEN rec.raised ELSE main_exc
        /\ main_pc' = IF rec.raised # None \/ main_exc # None THEN "raised" ELSE "returned"
        /\ UNCHANGED << resVars, automated >>

\* Before the run starts: the execution mode is set, the feed comes and
\* goes over the one screen content
workspace_before_run ==
    /\ main_pc = "capture"
    /\ \/ feed_update /\ feed'.screen_text_hash # "h2"
       \/ os_mutation /\ UNCHANGED << os_cursor, os_focus >>
    /\ UNCHANGED mainVars

mainInit ==
    /\ main_pc = "capture"
    /\ main_exc = None
    /\ automated = 0
    /\ journal_failed = FALSE

(***************************************************************************)
(* ModeController called from several threads                              *)
(*                                                                         *)
(* request_transition, update_observer_health and update_vision_status     *)
(* run their bodies inside `with self._lock`.  A caller is between the     *)
(* checks of request_transition and its commit, or between the flags of    *)
(* update_observer_health and _force_abort, or outside the controller.     *)
(***************************************************************************)
Threads == { "t1", "t2" }

VARIABLES
    mc_lock,      \* the thread that holds ModeController._lock, or None
    mc_thread     \* where each calling thread is, with its locals

concVars == << mc_lock, mc_thread >>

Idle == [ pc |-> "idle" ]

\* threading.Lock: `with self._lock` is entered when no thread holds it
LockAvailableAlways(holder) == TRUE
LockAvailable(holder) == holder = None

\* request_transition, lines 102-127: the lock is taken and the checks run;
\* the call ends here when a check raises or the mode is the target
conc_request_check ==
    \E t \in Threads, target \in SystemMode, force \in BOOLEAN :
        LET reason == << "g", "o" >>
            outcome == RequestOutcome(target, reason, force)
        IN
        /\ mc_thread[t] = Idle
        /\ LockAvailable(mc_lock)
        /\ IF outcome = "Committed"
           THEN /\ mc_lock' = t
                /\ mc_thread' = [ mc_thread EXCEPT ![t] =
                       [ pc |-> "commit", target |-> target, reason |-> reason,
                         force |-> force, current |-> mode, release |-> FALSE ] ]
                /\ UNCHANGED call
           ELSE /\ call' = [ op |-> "request_transition", target |-> target,
                             reason |-> reason, force |-> force, result |-> outcome ]
                /\ UNCHANGED << mc_lock, mc_thread >>
        /\ UNCHANGED << mode, last_transition_reason, vision_ok, input_locked,
                        observer_healthy, vision_failed_permanently, failure_reason,
                        transition_history >>

\* request_transition, lines 129-141: the commit, with the local `current`
\* of line 108, and the end of the with block
conc_request_commit ==
    \E t \in Threads :
        LET my == mc_thread[t] IN
        /\ my.pc = "commit"
        /\ input_locked' = IF my.target = EXECUTING THEN TRUE ELSE input_locked
        /\ mode' = my.target
        /\ last_transition_reason' = my.reason
        /\ transition_history' =
               record_transition(transition_history, my.current, my.target, my.reason,
                                 my.force, observer_healthy)
        /\ call' = [ op |-> "request_transition", target |-> my.target,
                     reason |-> my.reason, force |-> my.force, result |-> "Committed" ]
        /\ mc_lock' = None
        /\ mc_thread' = [ mc_thread EXCEPT ![t] =
               IF my.release THEN [ pc |-> "release" ] ELSE Idle ]
        /\ UNCHANGED << vision_ok, observer_healthy, vision_failed_permanently,
                        failure_reason >>

\* The callers of the controller: arm, execute and disarm
Callers == { "arm", "execute", "disarm" }

\* The target that arm, execute and disarm pass to request_transition
TargetOf(op) ==
    CASE op = "arm" -> ARMED
      [] op = "execute" -> EXECUTING
      [] op = "disarm" -> OBSERVER

\* arm, execute, disarm (lines 143-151): request_transition is entered, the
\* lock is taken and the checks run.  disarm goes on to release_input when
\* request_transition returns, and not when it raises.
conc_call_check ==
    \E t \in Threads, op \in Callers :
        LET reason == << "g", "o" >>
            target == TargetOf(op)
            force == (op = "disarm")
            outcome == RequestOutcome(target, reason, force)
        IN
        /\ mc_thread[t] = Idle
        /\ LockAvailable(mc_lock)
        /\ IF outcome = "Committed"
           THEN /\ mc_lock' = t
                /\ mc_thread' = [ mc_thread EXCEPT ![t] =
                       [ pc |-> "commit", target |-> target, reason |-> reason,
                         force |-> force, current |-> mode,
                         release |-> (op = "disarm") ] ]
                /\ UNCHANGED call
           ELSE /\ call' = [ op |-> op, target |-> target,
                             reason |-> reason, force |-> force, result |-> outcome ]
                /\ mc_thread' = [ mc_thread EXCEPT ![t] =
                       IF op = "disarm" /\ ~Raised(outcome)
                       THEN [ pc |-> "release" ] ELSE Idle ]
                /\ UNCHANGED mc_lock
        /\ UNCHANGED << mode, last_transition_reason, vision_ok, input_locked,
                        observer_healthy, vision_failed_permanently, failure_reason,
                        transition_history >>

\* disarm, line 151: release_input, after the with block of
\* request_transition has been left
conc_release_input ==
    \E t \in Threads :
        /\ mc_thread[t].pc = "release"
        /\ input_locked' = FALSE
        /\ mc_thread' = [ mc_thread EXCEPT ![t] = Idle ]
        /\ UNCHANGED << mode, last_transition_reason, vision_ok, observer_healthy,
                        vision_failed_permanently, failure_reason, transition_history,
                        call, mc_lock >>

\* update_observer_health, lines 71-78: the lock is taken and the flags are
\* set; the call ends here unless the mode is EXECUTING
conc_health_flags ==
    \E t \in Threads, healthy \in BOOLEAN :
        LET tripped == ~healthy /\ observer_healthy IN
        /\ mc_thread[t] = Idle
        /\ LockAvailable(mc_lock)
        /\ observer_healthy' = NextObserverHealth(healthy)
        /\ vision_failed_permanently' = (tripped \/ vision_failed_permanently)
        /\ failure_reason' = IF tripped THEN DefaultFailureReason ELSE failure_reason
        /\ IF AbortsExecution(healthy)
           THEN /\ mc_lock' = t
                /\ mc_thread' = [ mc_thread EXCEPT ![t] = [ pc |-> "abort" ] ]
                /\ UNCHANGED call
           ELSE /\ call' = [ op |-> "update_observer_health", healthy |-> healthy,
                             reason |-> None, result |-> "Returned" ]
                /\ UNCHANGED << mc_lock, mc_thread >>
        /\ UNCHANGED << mode, last_transition_reason, vision_ok, input_locked,
                        transition_history >>

\* _force_abort called from update_observer_health, lines 154-165, and the
\* end of the with block
conc_force_abort ==
    \E t \in Threads :
        /\ mc_thread[t].pc = "abort"
        /\ mode' = OBSERVER
        /\ last_transition_reason' = AbortReason
        /\ input_locked' = FALSE
        /\ transition_history' =
               record_transition(transition_history, mode, OBSERVER, AbortReason, TRUE,
                                 observer_healthy)
        /\ call' = [ op |-> "update_observer_health", healthy |-> FALSE,
                     reason |-> None, result |-> "Returned" ]
        /\ mc_lock' = None
        /\ mc_thread' = [ mc_thread EXCEPT ![t] = Idle ]
        /\ UNCHANGED << vision_ok, observer_healthy, vision_failed_permanently,
                        failure_reason >>

\* update_vision_status, lines 81-85, inside the lock
conc_update_vision_status ==
    \E t \in Threads :
        /\ mc_thread[t] = Idle
        /\ LockAvailable(mc_lock)
        /\ update_vision_status
        /\ UNCHANGED << mc_lock, mc_thread >>

concInit ==
    /\ mc_lock = None
    /\ mc_thread = [ t \in Threads |-> Idle ]

(***************************************************************************)
(* AuthorityStateSerializer and main() of src/main.py: boot, recovery,     *)
(* the observer loop and the hand-off to the automated run                 *)
(*                                                                         *)
(* The authority file and the temporary file of a write outlive the        *)
(* process; everything else is lost when the process is killed.            *)
(***************************************************************************)
MaxBoots == 2

AUTH_STATE_VERSION == "AUTH-STATE-1"

\* The dict that persist() builds
AuthState(execution_mode, automation_active, restore_required, dirty, updated_at) ==
    [ version |-> AUTH_STATE_VERSION, execution_mode |-> execution_mode,
      automation_active |-> automation_active, restore_required |-> restore_required,
      last_snapshot_id |-> None, dirty |-> dirty, updated_at |-> updated_at ]

DEFAULT_STATE == AuthState(OBSERVER, FALSE, FALSE, FALSE, NoneTs)

\* persist(...) of main, line 154; of main, line 171; of force_safe_state
DirtyState(t) == AuthState(EXECUTING, TRUE, TRUE, TRUE, t)
CleanState(t) == AuthState(OBSERVER, FALSE, FALSE, FALSE, t)
SafeStateCleared(t) == AuthState(OBSERVER, FALSE, FALSE, FALSE, t)
SafeState(t) == AuthState(OBSERVER, FALSE, TRUE, TRUE, t)

\* A file: absent, or present with a text that json.load rejects, parses
\* to something that is no dict, or parses to a dict
NoFile == [ exists |-> FALSE ]
File(readable, content) == [ exists |-> TRUE, readable |-> readable, content |-> content ]
InvalidJson == [ json |-> "invalid" ]
JsonArray == [ json |-> "array" ]

\* json.dump(state, f) and json.load(f) on what it wrote
Dump(state) == [ json |-> "object", state |-> state ]
Parse(content) == content.state

\* What a first boot may find at the state path
FoundFiles ==
    { NoFile,
      File(FALSE, Dump(DirtyState(0))),
      File(TRUE, InvalidJson),
      File(TRUE, JsonArray),
      File(TRUE, Dump([ DirtyState(0) EXCEPT !.version = "AUTH-STATE-0" ])),
      File(TRUE, Dump(DirtyState(0))),
      File(TRUE, Dump(SafeState(0))),
      File(TRUE, Dump(CleanState(0))) }

VARIABLES
    root_pc,        \* where main() of src/main.py is
    root_exc,       \* the exception on its way out of main(), or None
    persisted,      \* the local `persisted`
    auth_file,      \* the file at STATE_PATH
    tmp_file,       \* the temporary file of _atomic_write
    persist_pc,     \* the next step of the persist in progress, or "idle"
    persist_state,  \* the dict that the persist in progress writes
    file_before,    \* the file at STATE_PATH when that persist began
    boot_calls,     \* the calls of this boot before the observer loop
    stdin_intent,   \* a line of intent waits on stdin
    boots,          \* processes started so far
    crash_site      \* where the last process was when it was killed

rootVars == << root_pc, root_exc, persisted, auth_file, tmp_file, persist_pc,
               persist_state, file_before, boot_calls, stdin_intent, boots,
               crash_site >>

NoCrash == [ pc |-> None, persist_pc |-> "idle" ]

\* The schema check of load: `state.get("version") != _AUTH_STATE_VERSION`
VersionMismatchNever(state) == FALSE
VersionMismatch(state) == state.version # AUTH_STATE_VERSION

\* AuthorityStateSerializer.load: every exception is caught
LoadOutcome(file) ==
    IF ~file.exists
    THEN [ raised |-> None, value |-> DEFAULT_STATE ]
    ELSE IF ~file.readable \/ file.content.json # "object"
    THEN [ raised |-> None, value |-> DEFAULT_STATE ]
    ELSE IF VersionMismatch(Parse(file.content))
    THEN [ raised |-> None, value |-> DEFAULT_STATE ]
    ELSE [ raised |-> None, value |-> Parse(file.content) ]

\* `persisted.get("dirty") or persisted.get("restore_required")`
NeedsRecoveryNever(state) == FALSE
NeedsRecovery(state) == state.dirty \/ state.restore_required

\* The file that _atomic_write writes the text into
WrittenFileInPlace == "state_path"
WrittenFile == "tmp_path"

\* persist(...) is entered: the dict is built
BeginPersist(state) ==
    /\ persist_pc' = "mkstemp"
    /\ persist_state' = state
    /\ file_before' = auth_file

\* Where main() goes on when a persist has returned
AfterPersist(at) ==
    CASE at = "recover_persist" -> "controller"
      [] at = "persist_dirty" -> "soc"
      [] at = "persist_clean" -> "finally"
      [] at = "except_persist" -> "except_release"
      [] at = "shutdown_persist" -> "exited"
      [] at = "signal_persist" -> "exited"

\* _atomic_write, lines 200-207: the temporary file is created, empty
atomic_write_mkstemp ==
    /\ persist_pc = "mkstemp"
    /\ IF WrittenFile = "tmp_path"
       THEN tmp_file' = File(TRUE, InvalidJson) /\ UNCHANGED auth_file
       ELSE auth_file' = File(TRUE, InvalidJson) /\ UNCHANGED tmp_file
    /\ persist_pc' = "dump"
    /\ UNCHANGED << root_pc, root_exc, persisted, persist_state, file_before, boot_calls,
                    stdin_intent, boots, crash_site >>

\* _atomic_write, lines 210-213: json.dump, flush and fsync have returned
atomic_write_dump ==
    /\ persist_pc = "dump"
    /\ IF WrittenFile = "tmp_path"
       THEN tmp_file' = File(TRUE, Dump(persist_state)) /\ UNCHANGED auth_file
       ELSE auth_file' = File(TRUE, Dump(persist_state)) /\ UNCHANGED tmp_file
    /\ persist_pc' = "replace"
    /\ UNCHANGED << root_pc, root_exc, persisted, persist_state, file_before, boot_calls,
                    stdin_intent, boots, crash_site >>

\* _atomic_write, line 215: os.replace(tmp_path, self._state_path)
atomic_write_replace ==
    /\ persist_pc = "replace"
    /\ IF tmp_file.exists
       THEN auth_file' = tmp_file /\ tmp_file' = NoFile
       ELSE UNCHANGED << auth_file, tmp_file >>
    /\ persist_pc' = "unlink"
    /\ UNCHANGED << root_pc, root_exc, persisted, persist_state, file_before, boot_calls,
                    stdin_intent, boots, crash_site >>

\* _atomic_write, lines 217-222, and the return of persist to main()
atomic_write_unlink ==
    /\ persist_pc = "unlink"
    /\ tmp_file' = NoFile
    /\ persist_pc' = "idle"
    /\ file_before' = auth_file
    /\ root_pc' = AfterPersist(root_pc)
    /\ boot_calls' = IF root_pc = "recover_persist"
                     THEN Append(boot_calls, "force_safe_state") ELSE boot_calls
    /\ UNCHANGED << root_exc, persisted, auth_file, persist_state, stdin_intent, boots,
                    crash_site >>

\* What an earlier installation has left at the state path
authority_file_found ==
    \E file \in FoundFiles :
        /\ root_pc = "load"
        /\ boots = 1
        /\ auth_file' = file
        /\ file_before' = file
        /\ UNCHANGED << root_pc, root_exc, persisted, tmp_file, persist_pc, persist_state,
                        boot_calls, stdin_intent, boots, crash_site >>

\* main, line 83
root_load ==
    /\ root_pc = "load"
    /\ persisted' = LoadOutcome(auth_file).value
    /\ boot_calls' = << "load" >>
    /\ root_pc' = "loaded"
    /\ UNCHANGED << root_exc, auth_file, tmp_file, persist_pc, persist_state, file_before,
                    stdin_intent, boots, crash_site >>

\* main, line 85, without recovery
root_no_recovery ==
    /\ root_pc = "loaded"
    /\ ~NeedsRecovery(persisted)
    /\ root_pc' = "controller"
    /\ UNCHANGED << root_exc, persisted, auth_file, tmp_file, persist_pc, persist_state,
                    file_before, boot_calls, stdin_intent, boots, crash_site >>

\* main, lines 85-89: force_release_all, then force_safe_state is entered
root_recover ==
    \E b \in ReleaseBehaviours :
        /\ root_pc = "loaded"
        /\ NeedsRecovery(persisted)
        /\ os_mode' = ForceReleaseOutcome(ThisOs, b).os.mode
        /\ boot_calls' = Append(boot_calls, "force_release_all")
        /\ BeginPersist(SafeState(now))
        /\ root_pc' = "recover_persist"
        /\ UNCHANGED << root_exc, persisted, auth_file, tmp_file, stdin_intent, boots,
                        crash_site >>

\* main, lines 92-112: the controller, the listener and the observers are
\* constructed; force_observer on the new controller changes nothing
root_controller ==
    /\ root_pc = "controller"
    /\ root_pc' = "loop"
    /\ UNCHANGED << root_exc, persisted, auth_file, tmp_file, persist_pc, persist_state,
                    file_before, boot_calls, stdin_intent, boots, crash_site >>

\* The pcs at which the listener thread runs
ListenerRuns ==
    root_pc \in { "loop", "persist_dirty", "soc", "persist_clean", "except_persist",
                  "except_release", "finally" }

\* IntentListener._listen: one line of stdin
listener_arm ==
    /\ ListenerRuns
    /\ stdin_intent
    /\ stdin_intent' = FALSE
    /\ IF mode = OBSERVER
       THEN Transition("arm", ARMED, << "g", "o" >>, FALSE, FALSE)
       ELSE UNCHANGED mcVars
    /\ UNCHANGED << root_pc, root_exc, persisted, auth_file, tmp_file, persist_pc,
                    persist_state, file_before, boot_calls, boots, crash_site >>

\* mode.is_armed()
is_armed == mode = ARMED

\* main, lines 150-160: the hand-off begins with the persist of the marker
root_handoff ==
    /\ root_pc = "loop"
    /\ is_armed
    /\ BeginPersist(DirtyState(now))
    /\ root_pc' = "persist_dirty"
    /\ UNCHANGED << root_exc, persisted, auth_file, tmp_file, boot_calls, stdin_intent,
                    boots, crash_site >>

\* main, lines 162-182: what follows the call of soc_execute_main, which
\* returned or raised
AfterSoc(raised) ==
    /\ root_pc = "soc"
    /\ IF raised = None
       THEN /\ BeginPersist(CleanState(now))
            /\ root_pc' = "persist_clean"
            /\ UNCHANGED root_exc
       ELSE IF raised = "SystemExit"
       THEN /\ root_pc' = "finally"
            /\ root_exc' = raised
            /\ UNCHANGED << persist_pc, persist_state, file_before >>
       ELSE /\ BeginPersist(SafeState(now))
            /\ root_pc' = "except_persist"
            /\ UNCHANGED root_exc
    /\ UNCHANGED << persisted, auth_file, tmp_file, boot_calls, stdin_intent, boots,
                    crash_site >>

\* How main() of operate.py ends
SocOutcomes == { None, "Exception", "SystemExit" }

\* soc_execute_main(...) as one call
soc_execute_main == \E raised \in SocOutcomes : AfterSoc(raised)

\* soc_execute_main(...) step by step: main() of operate.py has ended
soc_main_ended ==
    /\ main_pc \in { "returned", "raised" }
    /\ AfterSoc(IF main_pc = "returned" THEN None ELSE main_exc)

\* main, line 182
root_except_release ==
    \E b \in ReleaseBehaviours :
        /\ root_pc = "except_release"
        /\ os_mode' = ForceReleaseOutcome(ThisOs, b).os.mode
        /\ root_pc' = "finally"
        /\ UNCHANGED << root_exc, persisted, auth_file, tmp_file, persist_pc,
                        persist_state, file_before, boot_calls, stdin_intent, boots,
                        crash_site >>

\* mode.force_observer()
force_observer ==
    /\ mode' = OBSERVER
    /\ input_locked' = FALSE
    /\ UNCHANGED << last_transition_reason, vision_ok, observer_healthy,
                    vision_failed_permanently, failure_reason, transition_history, call >>

\* main, lines 184-191: the finally block; a SystemExit goes on to the
\* atexit hook
root_finally ==
    /\ root_pc = "finally"
    /\ force_observer
    /\ root_pc' = IF root_exc = None THEN "sleep" ELSE "atexit"
    /\ UNCHANGED << root_exc, persisted, auth_file, tmp_file, persist_pc, persist_state,
                    file_before, boot_calls, stdin_intent, boots, crash_site >>

\* main, line 191, and the next pass of the observer loop
root_sleep ==
    /\ root_pc = "sleep"
    /\ root_pc' = "loop"
    /\ UNCHANGED << root_exc, persisted, auth_file, tmp_file, persist_pc, persist_state,
                    file_before, boot_calls, stdin_intent, boots, crash_site >>

\* _force_safe_shutdown("atexit"), lines 39-54
force_safe_shutdown ==
    \E b \in ReleaseBehaviours :
        /\ root_pc = "atexit"
        /\ os_mode' = ForceReleaseOutcome(ThisOs, b).os.mode
        /\ BeginPersist(SafeState(now))
        /\ root_pc' = "shutdown_persist"
        /\ UNCHANGED << root_exc, persisted, auth_file, tmp_file, boot_calls,
                        stdin_intent, boots, crash_site >>

\* _signal_handler, lines 57-59: SIGINT, SIGTERM or SIGQUIT arrives; the
\* handler runs _force_safe_shutdown on the main thread, whatever main()
\* was doing, and leaves with os._exit(1) when the persist has returned
signal_handler ==
    \E b \in ReleaseBehaviours :
        /\ root_pc \notin { "dead", "exited", "signal_persist" }
        /\ os_mode' = ForceReleaseOutcome(ThisOs, b).os.mode
        /\ BeginPersist(SafeState(now))
        /\ root_pc' = "signal_persist"
        /\ UNCHANGED << root_exc, persisted, auth_file, tmp_file, boot_calls,
                        stdin_intent, boots, crash_site >>

\* The process is killed (SIGKILL, power loss): no handler runs
kill ==
    /\ root_pc \notin { "dead", "exited" }
    /\ boots < MaxBoots
    /\ crash_site' = [ pc |-> root_pc, persist_pc |-> persist_pc ]
    /\ root_pc' = "dead"
    /\ persist_pc' = "idle"
    /\ UNCHANGED << root_exc, persisted, auth_file, tmp_file, persist_state, file_before,
                    boot_calls, stdin_intent, boots >>

\* The program is started again: a new process with new singletons
boot ==
    /\ root_pc \in { "dead", "exited" }
    /\ boots < MaxBoots
    /\ boots' = boots + 1
    /\ root_pc' = "load"
    /\ root_exc' = None
    /\ persisted' = DEFAULT_STATE
    /\ boot_calls' = << >>
    /\ stdin_intent' = TRUE
    /\ crash_site' = IF root_pc = "dead" THEN crash_site ELSE NoCrash
    /\ os_mode' = OBSERVER
    /\ mode' = OBSERVER
    /\ last_transition_reason' = None
    /\ vision_ok' = FALSE
    /\ input_locked' = FALSE
    /\ observer_healthy' = TRUE
    /\ vision_failed_permanently' = FALSE
    /\ failure_reason' = None
    /\ transition_history' = << >>
    /\ call' = [ op |-> "__init__", result |-> "Returned" ]
    /\ UNCHANGED << auth_file, tmp_file, persist_pc, persist_state, file_before >>

rootInit ==
    /\ root_pc = "load"
    /\ root_exc = None
    /\ persisted = DEFAULT_STATE
    /\ auth_file = NoFile
    /\ tmp_file = NoFile
    /\ persist_pc = "idle"
    /\ persist_state = DEFAULT_STATE
    /\ file_before = NoFile
    /\ boot_calls = << >>
    /\ stdin_intent = TRUE
    /\ boots = 1
    /\ crash_site = NoCrash

(***************************************************************************)
(* OperatingSystem: the heartbeat watchdog                                 *)
(*                                                                         *)
(* elapsed = time.time() - _last_heartbeat is counted in fifths of a       *)
(* second up to the first value above the timeout, which stands for every  *)
(* larger one.                                                             *)
(***************************************************************************)
\* _HEARTBEAT_TIMEOUT = 2.0
HEARTBEAT_TIMEOUT == 10

VARIABLES
    hb_active,    \* _automation_active
    hb_elapsed,   \* time.time() - _last_heartbeat
    hb_started,   \* _watchdog_thread_started
    hb_running,   \* the thread of _watchdog_loop is alive
    hb_releases,  \* force_release_all calls of the watchdog since the
                  \* heartbeat was last touched
    hb_call       \* the last call on the backend

hbVars == << hb_active, hb_elapsed, hb_started, hb_running, hb_releases, hb_call >>

\* The test of _watchdog_loop
HeartbeatLost == hb_active /\ hb_elapsed > HEARTBEAT_TIMEOUT

\* The clock advances
hb_time_passes ==
    /\ hb_elapsed <= HEARTBEAT_TIMEOUT
    /\ hb_elapsed' = hb_elapsed + 1
    /\ UNCHANGED << hb_active, hb_started, hb_running, hb_releases, hb_call, os_mode >>

\* OperatingSystem.mark_automation_active, with _touch_heartbeat and
\* _ensure_watchdog
mark_automation_active ==
    /\ hb_active' = TRUE
    /\ hb_elapsed' = 0
    /\ hb_started' = TRUE
    /\ hb_running' = IF hb_started THEN hb_running ELSE TRUE
    /\ hb_releases' = 0
    /\ hb_call' = [ op |-> "mark_automation_active" ]
    /\ UNCHANGED os_mode

\* OperatingSystem.mark_automation_inactive
mark_automation_inactive ==
    /\ hb_active' = FALSE
    /\ hb_call' = [ op |-> "mark_automation_inactive" ]
    /\ UNCHANGED << hb_elapsed, hb_started, hb_running, hb_releases, os_mode >>

\* OperatingSystem.heartbeat
heartbeat ==
    /\ hb_elapsed' = 0
    /\ hb_releases' = 0
    /\ hb_call' = [ op |-> "heartbeat" ]
    /\ UNCHANGED << hb_active, hb_started, hb_running, os_mode >>

\* One pass of OperatingSystem._watchdog_loop after its sleep
os_watchdog_loop ==
    \E b \in ReleaseBehaviours :
        /\ hb_running
        /\ IF HeartbeatLost
           THEN /\ os_mode' = ForceReleaseOutcome(ThisOs, b).os.mode
                /\ hb_releases' = 1
                /\ hb_running' = FALSE
                /\ hb_call' = [ op |-> "force_release_all" ]
           ELSE /\ b = [ stop_automated_input |-> "ok", enable_user_input |-> "ok" ]
                /\ hb_call' = [ op |-> "watchdog_loop" ]
                /\ UNCHANGED << os_mode, hb_releases, hb_running >>
        /\ UNCHANGED << hb_active, hb_elapsed, hb_started >>

hbInit ==
    /\ hb_active = FALSE
    /\ hb_elapsed = 0
    /\ hb_started = FALSE
    /\ hb_running = FALSE
    /\ hb_releases = 0
    /\ hb_call = [ op |-> "__init__" ]

\* Variables of the components other than the mode controller, the
\* arbitrator and the step loop
extVars == << jVars, polVars, resVars, mainVars, concVars, rootVars, hbVars >>

vars == << mcVars, arbVars, loopVars, extVars >>

Init ==
    /\ mcInit /\ arbInit /\ loopInit /\ jInit /\ polInit /\ resInit /\ mainInit
    /\ concInit /\ rootInit /\ hbInit

Next ==
    \/ request_transition /\ UNCHANGED << arbVars, loopVars, extVars >>
    \/ arm /\ UNCHANGED << arbVars, loopVars, extVars >>
    \/ execute /\ UNCHANGED << arbVars, loopVars, extVars >>
    \/ disarm /\ UNCHANGED << arbVars, loopVars, extVars >>
    \/ update_observer_health /\ UNCHANGED << arbVars, loopVars, extVars >>
    \/ update_vision_status /\ UNCHANGED << arbVars, loopVars, extVars >>
    \/ lock_input /\ UNCHANGED << arbVars, loopVars, extVars >>
    \/ release_input /\ UNCHANGED << arbVars, loopVars, extVars >>

Spec == Init /\ [][Next]_vars

NextArb ==
    \/ Tick /\ UNCHANGED << mcVars, loopVars, extVars >>
    \/ soc_action_started /\ UNCHANGED << mcVars, loopVars, extVars >>
    \/ evaluate /\ UNCHANGED << mcVars, loopVars, extVars >>
    \/ tracker_classify_input /\ UNCHANGED << mcVars, loopVars, extVars >>
    \/ emergency_reclaim /\ UNCHANGED << mcVars, loopVars, extVars >>
    \/ clear_emergency_reclaim /\ UNCHANGED << mcVars, loopVars, extVars >>
    \/ watchdog_loop /\ UNCHANGED << mcVars, loopVars, extVars >>

SpecArb == Init /\ [][NextArb]_vars

\* operate() on the main thread; the watchdog thread, the clock, and the
\* arbitrator's public methods called from outside the loop.
NextLoop ==
    \/ operate_next_operation /\ UNCHANGED << mcVars, extVars >>
    \/ operate_return_false /\ UNCHANGED << mcVars, extVars >>
    \/ operate_record_start /\ UNCHANGED << mcVars, extVars >>
    \/ operate_evaluate /\ UNCHANGED << mcVars, extVars >>
    \/ operate_branch /\ UNCHANGED << mcVars, extVars >>
    \/ operate_mark /\ UNCHANGED << mcVars, extVars >>
    \/ operate_act /\ UNCHANGED << mcVars, extVars >>
    \/ operate_record_complete /\ UNCHANGED << mcVars, extVars >>
    \/ Tick /\ UNCHANGED << mcVars, loopVars, extVars >>
    \/ watchdog_loop /\ UNCHANGED << mcVars, loopVars, extVars >>
    \/ emergency_reclaim /\ UNCHANGED << mcVars, loopVars, extVars >>
    \/ clear_emergency_reclaim /\ UNCHANGED << mcVars, loopVars, extVars >>
    \/ soc_action_started /\ UNCHANGED << mcVars, loopVars, extVars >>

SpecLoop == Init /\ [][NextLoop]_vars

\* The watchdog is a daemon thread that is never joined or stopped.
\* The journal alone, called by any caller; no call follows a SystemExit
NextJournal ==
    \/ record /\ UNCHANGED << mcVars, arbVars, loopVars, polVars, resVars, mainVars, concVars, rootVars, hbVars >>
    \/ seal /\ UNCHANGED << mcVars, arbVars, loopVars, polVars, resVars, mainVars, concVars, rootVars, hbVars >>

SpecJournal == Init /\ [][NextJournal]_vars

\* The oracle and the execution gate, called with any node and action
NextPolicy ==
    \/ validate /\ UNCHANGED << mcVars, arbVars, loopVars, jVars, resVars, mainVars, concVars, rootVars, hbVars >>
    \/ backend_execute /\ UNCHANGED << mcVars, arbVars, loopVars, jVars, resVars, mainVars, concVars, rootVars, hbVars >>

SpecPolicy == Init /\ [][NextPolicy]_vars

\* The execution gate with the ledger behind its audit callback, and the
\* closing seal of the session
NextGate ==
    \/ audited_execute /\ UNCHANGED << mcVars, arbVars, loopVars, resVars, mainVars, concVars, rootVars, hbVars >>
    \/ seal /\ UNCHANGED << mcVars, arbVars, loopVars, polVars, resVars, mainVars, concVars, rootVars, hbVars >>

SpecGate == Init /\ [][NextGate]_vars

\* Capture, restore and verify called in any order around changes of the
\* workspace
NextRestore ==
    \/ capture_pre_hijack_snapshot /\ UNCHANGED << mcVars, arbVars, loopVars, jVars, polVars, mainVars, concVars, rootVars, hbVars >>
    \/ os_mutation /\ UNCHANGED << mcVars, arbVars, loopVars, jVars, polVars, mainVars, concVars, rootVars, hbVars >>
    \/ feed_update /\ UNCHANGED << mcVars, arbVars, loopVars, jVars, polVars, mainVars, concVars, rootVars, hbVars >>
    \/ restore /\ UNCHANGED << mcVars, arbVars, loopVars, jVars, polVars, mainVars, concVars, rootVars, hbVars >>
    \/ verify /\ UNCHANGED << mcVars, arbVars, loopVars, jVars, polVars, mainVars, concVars, rootVars, hbVars >>
    \/ force_release_all /\ UNCHANGED << mcVars, arbVars, loopVars, jVars, polVars, mainVars, concVars, rootVars, hbVars >>

SpecRestore == Init /\ [][NextRestore]_vars

\* main() on the main thread
NextMain ==
    \/ workspace_before_run /\ UNCHANGED << mcVars, arbVars, loopVars, jVars, polVars, concVars, rootVars, hbVars >>
    \/ main_capture /\ UNCHANGED << mcVars, arbVars, loopVars, polVars, concVars, rootVars, hbVars >>
    \/ main_operate /\ UNCHANGED << mcVars, arbVars, loopVars, polVars, concVars, rootVars, hbVars >>
    \/ main_except /\ UNCHANGED << mcVars, arbVars, loopVars, polVars, concVars, rootVars, hbVars >>
    \/ main_restore /\ UNCHANGED << mcVars, arbVars, loopVars, polVars, concVars, rootVars, hbVars >>
    \/ main_record_restoration /\ UNCHANGED << mcVars, arbVars, loopVars, polVars, concVars, rootVars, hbVars >>
    \/ main_seal /\ UNCHANGED << mcVars, arbVars, loopVars, polVars, concVars, rootVars, hbVars >>

SpecMain == Init /\ [][NextMain]_vars

\* The controller called from the threads of Threads
NextConc ==
    \/ conc_request_check /\ UNCHANGED << arbVars, loopVars, jVars, polVars, resVars, mainVars, rootVars, hbVars >>
    \/ conc_request_commit /\ UNCHANGED << arbVars, loopVars, jVars, polVars, resVars, mainVars, rootVars, hbVars >>
    \/ conc_health_flags /\ UNCHANGED << arbVars, loopVars, jVars, polVars, resVars, mainVars, rootVars, hbVars >>
    \/ conc_force_abort /\ UNCHANGED << arbVars, loopVars, jVars, polVars, resVars, mainVars, rootVars, hbVars >>
    \/ conc_update_vision_status /\ UNCHANGED << arbVars, loopVars, jVars, polVars, resVars, mainVars, rootVars, hbVars >>

SpecConc == Init /\ [][NextConc]_vars

\* arm, execute, disarm and update_observer_health called from the threads of
\* Threads, with the vision status reported by the observer
NextCallers ==
    \/ conc_call_check /\ UNCHANGED << arbVars, loopVars, jVars, polVars, resVars, mainVars, rootVars, hbVars >>
    \/ conc_request_commit /\ UNCHANGED << arbVars, loopVars, jVars, polVars, resVars, mainVars, rootVars, hbVars >>
    \/ conc_release_input /\ UNCHANGED << arbVars, loopVars, jVars, polVars, resVars, mainVars, rootVars, hbVars >>
    \/ conc_health_flags /\ UNCHANGED << arbVars, loopVars, jVars, polVars, resVars, mainVars, rootVars, hbVars >>
    \/ conc_force_abort /\ UNCHANGED << arbVars, loopVars, jVars, polVars, resVars, mainVars, rootVars, hbVars >>
    \/ conc_update_vision_status /\ UNCHANGED << arbVars, loopVars, jVars, polVars, resVars, mainVars, rootVars, hbVars >>

SpecCallers == Init /\ [][NextCallers]_vars

\* main() of src/main.py over boots and kills, the automated run as one call
NextBoot ==
    \/ authority_file_found /\ UNCHANGED << mcVars, resVars >>
          /\ UNCHANGED << arbVars, loopVars, jVars, polVars, mainVars, concVars, hbVars >>
    \/ root_load /\ UNCHANGED << mcVars, resVars >>
          /\ UNCHANGED << arbVars, loopVars, jVars, polVars, mainVars, concVars, hbVars >>
    \/ root_no_recovery /\ UNCHANGED << mcVars, resVars >>
          /\ UNCHANGED << arbVars, loopVars, jVars, polVars, mainVars, concVars, hbVars >>
    \/ root_recover /\ UNCHANGED mcVars /\ UNCHANGED << os_cursor, os_focus, feed, snapshot, restore_completed, res_call >>
          /\ UNCHANGED << arbVars, loopVars, jVars, polVars, mainVars, concVars, hbVars >>
    \/ atomic_write_mkstemp /\ UNCHANGED << mcVars, resVars >>
          /\ UNCHANGED << arbVars, loopVars, jVars, polVars, mainVars, concVars, hbVars >>
    \/ atomic_write_dump /\ UNCHANGED << mcVars, resVars >>
          /\ UNCHANGED << arbVars, loopVars, jVars, polVars, mainVars, concVars, hbVars >>
    \/ atomic_write_replace /\ UNCHANGED << mcVars, resVars >>
          /\ UNCHANGED << arbVars, loopVars, jVars, polVars, mainVars, concVars, hbVars >>
    \/ atomic_write_unlink /\ UNCHANGED << mcVars, resVars >>
          /\ UNCHANGED << arbVars, loopVars, jVars, polVars, mainVars, concVars, hbVars >>
    \/ root_controller /\ UNCHANGED << mcVars, resVars >>
          /\ UNCHANGED << arbVars, loopVars, jVars, polVars, mainVars, concVars, hbVars >>
    \/ listener_arm /\ UNCHANGED resVars
          /\ UNCHANGED << arbVars, loopVars, jVars, polVars, mainVars, concVars, hbVars >>
    \/ root_handoff /\ UNCHANGED << mcVars, resVars >>
          /\ UNCHANGED << arbVars, loopVars, jVars, polVars, mainVars, concVars, hbVars >>
    \/ soc_execute_main /\ UNCHANGED << mcVars, resVars >>
          /\ UNCHANGED << arbVars, loopVars, jVars, polVars, mainVars, concVars, hbVars >>
    \/ root_except_release /\ UNCHANGED mcVars /\ UNCHANGED << os_cursor, os_focus, feed, snapshot, restore_completed, res_call >>
          /\ UNCHANGED << arbVars, loopVars, jVars, polVars, mainVars, concVars, hbVars >>
    \/ root_finally /\ UNCHANGED resVars
          /\ UNCHANGED << arbVars, loopVars, jVars, polVars, mainVars, concVars, hbVars >>
    \/ root_sleep /\ UNCHANGED << mcVars, resVars >>
          /\ UNCHANGED << arbVars, loopVars, jVars, polVars, mainVars, concVars, hbVars >>
    \/ force_safe_shutdown /\ UNCHANGED mcVars /\ UNCHANGED << os_cursor, os_focus, feed, snapshot, restore_completed, res_call >>
          /\ UNCHANGED << arbVars, loopVars, jVars, polVars, mainVars, concVars, hbVars >>
    \/ signal_handler /\ UNCHANGED mcVars /\ UNCHANGED << os_cursor, os_focus, feed, snapshot, restore_completed, res_call >>
          /\ UNCHANGED << arbVars, loopVars, jVars, polVars, mainVars, concVars, hbVars >>
    \/ kill /\ UNCHANGED << mcVars, resVars >>
          /\ UNCHANGED << arbVars, loopVars, jVars, polVars, mainVars, concVars, hbVars >>
    \/ boot /\ UNCHANGED << os_cursor, os_focus, feed, snapshot, restore_completed, res_call >>
          /\ UNCHANGED << arbVars, loopVars, jVars, polVars, mainVars, concVars, hbVars >>

SpecBoot == Init /\ [][NextBoot]_vars

\* main() of src/main.py on a new installation, the automated run step by step
NextRoot ==
    \/ root_load /\ UNCHANGED << mcVars, resVars >>
          /\ UNCHANGED << arbVars, loopVars, jVars, polVars, mainVars, concVars, hbVars >>
    \/ root_no_recovery /\ UNCHANGED << mcVars, resVars >>
          /\ UNCHANGED << arbVars, loopVars, jVars, polVars, mainVars, concVars, hbVars >>
    \/ atomic_write_mkstemp /\ UNCHANGED << mcVars, resVars >>
          /\ UNCHANGED << arbVars, loopVars, jVars, polVars, mainVars, concVars, hbVars >>
    \/ atomic_write_dump /\ UNCHANGED << mcVars, resVars >>
          /\ UNCHANGED << arbVars, loopVars, jVars, polVars, mainVars, concVars, hbVars >>
    \/ atomic_write_replace /\ UNCHANGED << mcVars, resVars >>
          /\ UNCHANGED << arbVars, loopVars, jVars, polVars, mainVars, concVars, hbVars >>
    \/ atomic_write_unlink /\ UNCHANGED << mcVars, resVars >>
          /\ UNCHANGED << arbVars, loopVars, jVars, polVars, mainVars, concVars, hbVars >>
    \/ root_controller /\ UNCHANGED << mcVars, resVars >>
          /\ UNCHANGED << arbVars, loopVars, jVars, polVars, mainVars, concVars, hbVars >>
    \/ listener_arm /\ UNCHANGED resVars
          /\ UNCHANGED << arbVars, loopVars, jVars, polVars, mainVars, concVars, hbVars >>
    \/ root_handoff /\ UNCHANGED << mcVars, resVars >>
          /\ UNCHANGED << arbVars, loopVars, jVars, polVars, mainVars, concVars, hbVars >>
    \/ root_pc = "soc" /\ main_capture
          /\ UNCHANGED << mcVars, arbVars, loopVars, polVars, concVars, rootVars, hbVars >>
    \/ root_pc = "soc" /\ main_operate
          /\ UNCHANGED << mcVars, arbVars, loopVars, polVars, concVars, rootVars, hbVars >>
    \/ root_pc = "soc" /\ main_except
          /\ UNCHANGED << mcVars, arbVars, loopVars, polVars, concVars, rootVars, hbVars >>
    \/ root_pc = "soc" /\ main_restore
          /\ UNCHANGED << mcVars, arbVars, loopVars, polVars, concVars, rootVars, hbVars >>
    \/ root_pc = "soc" /\ main_record_restoration
          /\ UNCHANGED << mcVars, arbVars, loopVars, polVars, concVars, rootVars, hbVars >>
    \/ root_pc = "soc" /\ main_seal
          /\ UNCHANGED << mcVars, arbVars, loopVars, polVars, concVars, rootVars, hbVars >>
    \/ soc_main_ended /\ UNCHANGED << mcVars, resVars >>
          /\ UNCHANGED << arbVars, loopVars, jVars, polVars, mainVars, concVars, hbVars >>
    \/ root_except_release /\ UNCHANGED mcVars /\ UNCHANGED << os_cursor, os_focus, feed, snapshot, restore_completed, res_call >>
          /\ UNCHANGED << arbVars, loopVars, jVars, polVars, mainVars, concVars, hbVars >>
    \/ root_finally /\ UNCHANGED resVars
          /\ UNCHANGED << arbVars, loopVars, jVars, polVars, mainVars, concVars, hbVars >>
    \/ root_sleep /\ UNCHANGED << mcVars, resVars >>
          /\ UNCHANGED << arbVars, loopVars, jVars, polVars, mainVars, concVars, hbVars >>
    \/ force_safe_shutdown /\ UNCHANGED mcVars /\ UNCHANGED << os_cursor, os_focus, feed, snapshot, restore_completed, res_call >>
          /\ UNCHANGED << arbVars, loopVars, jVars, polVars, mainVars, concVars, hbVars >>

SpecRoot == Init /\ [][NextRoot]_vars

\* The heartbeat watchdog of the OS backend and its callers
NextHeartbeat ==
    \/ hb_time_passes /\ UNCHANGED << os_cursor, os_focus, feed, snapshot, restore_completed, res_call >>
          /\ UNCHANGED << mcVars, arbVars, loopVars, jVars, polVars, mainVars, concVars, rootVars >>
    \/ mark_automation_active /\ UNCHANGED << os_cursor, os_focus, feed, snapshot, restore_completed, res_call >>
          /\ UNCHANGED << mcVars, arbVars, loopVars, jVars, polVars, mainVars, concVars, rootVars >>
    \/ mark_automation_inactive /\ UNCHANGED << os_cursor, os_focus, feed, snapshot, restore_completed, res_call >>
          /\ UNCHANGED << mcVars, arbVars, loopVars, jVars, polVars, mainVars, concVars, rootVars >>
    \/ heartbeat /\ UNCHANGED << os_cursor, os_focus, feed, snapshot, restore_completed, res_call >>
          /\ UNCHANGED << mcVars, arbVars, loopVars, jVars, polVars, mainVars, concVars, rootVars >>
    \/ os_watchdog_loop /\ UNCHANGED << os_cursor, os_focus, feed, snapshot, restore_completed, res_call >>
          /\ UNCHANGED << mcVars, arbVars, loopVars, jVars, polVars, mainVars, concVars, rootVars >>

SpecHeartbeat == Init /\ [][NextHeartbeat]_vars

\* The watchdog thread, while alive, makes its passes
SpecHeartbeatFair ==
    SpecHeartbeat
        /\ WF_vars(os_watchdog_loop /\ UNCHANGED << os_cursor, os_focus, feed, snapshot, restore_completed, res_call >>
                       /\ UNCHANGED << mcVars, arbVars, loopVars, jVars, polVars, mainVars, concVars, rootVars >>)

SpecArbFair == SpecArb /\ WF_vars(watchdog_loop /\ UNCHANGED << mcVars, loopVars, extVars >>)

(***************************************************************************)
(* Properties of the ModeController (checked under Spec)                   *)
(***************************************************************************)
AllowedEdges ==
    { <<OBSERVER, ARMED>>, <<ARMED, EXECUTING>>, <<ARMED, OBSERVER>>,
      <<EXECUTING, OBSERVER>> }

IsRequest(c) == c.op \in {"request_transition", "arm", "execute", "disarm"}

\* Every step is one call on the controller, and call' holds its arguments
\* and outcome; the unprimed variables are the state the call found.
\* The step is a call of request_transition (directly or through arm,
\* execute, disarm).
RequestStep == IsRequest(call')

\* C1 (as stated): without force only the four allowed edges commit, and
\* every other request to a mode different from the current one fails with
\* the illegal-transition error.
C1_Original ==
    [][ (RequestStep /\ ~call'.force) =>
            /\ (mode' # mode => <<mode, mode'>> \in AllowedEdges)
            /\ (call'.target # mode /\ <<mode, call'.target>> \notin AllowedEdges
                    => call'.result = "IllegalTransition") ]_vars

\* C1 (amended): without force only the four allowed edges commit; every
\* other request to a mode different from the current one fails and leaves
\* the mode alone, with the illegal-transition error when its reason is not
\* blank and with the empty-reason error when it is blank.
C1_OnlyAllowedEdgesWithoutForce ==
    [][ (RequestStep /\ ~call'.force) =>
            /\ (mode' # mode => <<mode, mode'>> \in AllowedEdges)
            /\ (call'.target # mode /\ <<mode, call'.target>> \notin AllowedEdges
                    => /\ mode' = mode
                       /\ call'.result = IF IsBlankReason(call'.reason)
                                         THEN "EmptyReason"
                                         ELSE "IllegalTransition") ]_vars

C1_Witness ==
    /\ call.op = "request_transition"
    /\ ~call.force
    /\ call.target # mode
    /\ call.result = "IllegalTransition"
    /\ Len(transition_history) > 0

\* C2: a mode change that is not one of the allowed edges always targets
\* OBSERVER; no call moves the mode from OBSERVER to EXECUTING or from
\* EXECUTING to ARMED, with or without force.
C2_BypassTargetsObserver ==
    [][ mode' # mode =>
            (<<mode, mode'>> \in AllowedEdges \/ mode' = OBSERVER) ]_vars

\* C3: the mode becomes EXECUTING only while vision_ok is true; a request
\* into EXECUTING made while vision is not ok fails and leaves the mode
\* alone, with force=true too.
C3_ExecutingNeedsVision ==
    [][ /\ (mode' = EXECUTING /\ mode # EXECUTING => vision_ok /\ vision_ok')
        /\ (RequestStep /\ call'.target = EXECUTING /\ mode # EXECUTING /\ ~vision_ok
                => Raised(call'.result) /\ mode' = mode) ]_vars

C3_Witness ==
    /\ IsRequest(call)
    /\ call.target = EXECUTING
    /\ call.force
    /\ call.result = "VisionUnavailable"
    /\ vision_failed_permanently
    /\ mode # EXECUTING

HealthLostStep ==
    call'.op = "update_observer_health" /\ ~call'.healthy

\* C4: after update_observer_health(false) the observer-health flag is
\* false and no later call makes it true again; if the mode was EXECUTING
\* when the call was made, the mode is OBSERVER when it returns.
C4_HealthMonotonic ==
    [][ /\ (~observer_healthy => ~observer_healthy')
        /\ (HealthLostStep =>
                /\ ~observer_healthy'
                /\ (mode = EXECUTING => mode' = OBSERVER)) ]_vars

C4_Witness ==
    /\ call.op = "update_observer_health"
    /\ ~call.healthy
    /\ ~observer_healthy
    /\ mode = OBSERVER
    /\ transition_history # <<>>
    /\ LET r == transition_history[Len(transition_history)] IN
           r.from = EXECUTING /\ r.to = OBSERVER /\ r.reason = AbortReason

\* C5: once vision has been marked permanently failed (by
\* update_vision_status(false) or by the loss of observer health), the
\* vision flag of the forensic snapshot reads not-ok in every later state.
C5_FailedVisionNeverReadsOk ==
    vision_failed_permanently => ~get_authority_snapshot.vision_ok

\* C6 (as stated): after observer health is lost, every request to a mode
\* different from the current one fails with the observer-unhealthy error
\* and the mode stays what it was.
C6_Original ==
    [][ (RequestStep /\ ~observer_healthy /\ call'.target # mode) =>
            call'.result = "ObserverUnhealthy" /\ mode' = mode ]_vars

\* C6 (amended): after observer health is lost, every request to a mode
\* different from the current one fails and the mode stays what it was; the
\* error is the observer-unhealthy one whenever the reason is not blank and
\* the request is forced or follows an allowed edge (disarm from ARMED), the
\* empty-reason error for a blank reason, and the illegal-transition error
\* for an unforced request off the allowed edges.
C6_UnhealthyRefusesEveryChange ==
    [][ (RequestStep /\ ~observer_healthy /\ call'.target # mode) =>
            /\ mode' = mode
            /\ call'.result =
                 IF IsBlankReason(call'.reason) THEN "EmptyReason"
                 ELSE IF ~call'.force /\ <<mode, call'.target>> \notin AllowedEdges
                      THEN "IllegalTransition"
                 ELSE "ObserverUnhealthy" ]_vars

C6_Witness ==
    /\ call.op = "disarm"
    /\ call.result = "ObserverUnhealthy"
    /\ mode = ARMED
    /\ ~observer_healthy

(***************************************************************************)
(* Properties of the ModeController under concurrent callers (SpecConc)    *)
(***************************************************************************)

\* C30: under any interleaving of threads calling request_transition,
\* update_observer_health and update_vision_status, every committed
\* transition was checked against the mode and the flags of the instant of
\* its commit: the from-mode of each history record is the to-mode of the
\* record before it, the to-mode of the last record is the mode, and a
\* record into EXECUTING was written with the observer healthy and the
\* vision ok, never after one of them was lost.
C30_CommitChecksHoldAtCommit ==
    /\ \A i \in 2..Len(transition_history) :
           transition_history[i].from = transition_history[i - 1].to
    /\ Len(transition_history) > 0 =>
           transition_history[Len(transition_history)].to = mode
    /\ \A i \in 1..Len(transition_history) :
           transition_history[i].to = EXECUTING =>
               /\ transition_history[i].observer_healthy
               /\ transition_history[i].vision_ok

\* A thread is between the checks and the commit of a transition out of
\* EXECUTING, after two commits, of which the last went into EXECUTING
C30_Witness ==
    /\ Len(transition_history) = 2
    /\ transition_history[2].to = EXECUTING
    /\ mc_lock = "t2"
    /\ mc_thread["t2"].pc = "commit"
    /\ mc_thread["t1"] = Idle

\* No call on the controller is in progress
Quiescent == mc_lock = None /\ \A t \in Threads : mc_thread[t] = Idle

\* C31: in every quiescent state reached by any interleaving of concurrent
\* callers of arm, execute, disarm and update_observer_health, the input
\* lock is engaged exactly when the mode is EXECUTING.
C31_LockedIffExecuting ==
    Quiescent => (input_locked <=> mode = EXECUTING)

(***************************************************************************)
(* Properties of the heartbeat watchdog (SpecHeartbeatFair)                *)
(***************************************************************************)
\* C34: whenever automation is marked active and no heartbeat arrives for
\* longer than the heartbeat timeout, the watchdog eventually calls
\* force_release_all, on every such episode of the process lifetime,
\* including after it has fired once and automation has been marked active
\* again.
C34_WatchdogReleasesEveryEpisode ==
    HeartbeatLost ~> (~HeartbeatLost \/ hb_releases > 0)

(***************************************************************************)
(* Properties of the InputArbitrator (checked under SpecArb, SpecArbFair)  *)
(***************************************************************************)
\* C7: whenever the forced-release flag is set, evaluate returns the
\* decision Release, for every classification and every value of high_risk
\* and soc_confident.
C7_ForcedReleaseReturnsRelease ==
    (arb_call.op = "evaluate" /\ arb_call.forced_release) =>
        (~arb_call.raised /\ arb_call.value = "RELEASE")

\* C9: with the forced-release flag clear, evaluate returns Abort for a
\* HUMAN event when high_risk is true and Yield for a HUMAN event otherwise
\* (for both values of soc_confident), and it returns Continue exactly for
\* SOC events.
C9_HumanNeverContinues ==
    (arb_call.op = "evaluate" /\ ~arb_call.forced_release) =>
        /\ ~arb_call.raised
        /\ (arb_call.source = HUMAN =>
                arb_call.value = IF arb_call.high_risk THEN ABORT ELSE YIELD)
        /\ (arb_call.value = CONTINUE <=> arb_call.source = SOC)

C9_Witness ==
    /\ arb_call.op = "evaluate"
    /\ ~arb_call.forced_release
    /\ arb_call.source = HUMAN
    /\ ~arb_call.high_risk
    /\ arb_call.soc_confident
    /\ arb_call.value = YIELD
    /\ tracker_last_soc_action_ts # NoneTs

IdleExceedsTimeout ==
    /\ last_soc_action_ts # NoneTs
    /\ now - last_soc_action_ts > EMERGENCY_RECLAIM_TIMEOUT

\* C10: once an action has been marked and the time since the last mark
\* exceeds the timeout, the forced-release flag eventually becomes set
\* (unless the operator marks another action first), given that the
\* watchdog thread keeps being scheduled; and once set the flag stays set
\* across every evaluate, soc_action_started and watchdog pass, until
\* clear_emergency_reclaim is called.
C10_DeadmanFiresAndLatches ==
    /\ IdleExceedsTimeout ~> (forced_release \/ ~IdleExceedsTimeout)
    /\ [][ (forced_release /\ arb_call'.op # "clear_emergency_reclaim")
               => forced_release' ]_vars

C10_Witness ==
    /\ arb_call.op = "watchdog_loop"
    /\ arb_call.tripped
    /\ forced_release
    /\ IdleExceedsTimeout

\* C29: classify_input returns HUMAN when no operator action was ever
\* marked or when the event timestamp exceeds the last mark by more than
\* the window of 0.2 s, and SOC otherwise: also for an event exactly 0.2 s
\* after the mark and for an event stamped before the mark.
C29_ClassifyWindow ==
    arb_call.op = "classify_input" =>
        /\ tracker_last_soc_action_ts = NoneTs => arb_call.source = HUMAN
        /\ tracker_last_soc_action_ts # NoneTs =>
               /\ arb_call.event_ts > tracker_last_soc_action_ts + ClassifyWindow =>
                      arb_call.source = HUMAN
               /\ arb_call.event_ts <= tracker_last_soc_action_ts + ClassifyWindow =>
                      arb_call.source = SOC

\* An event stamped exactly 0.2 s after a mark made later than time 0 has
\* been classified as the operator's
C29_Witness ==
    /\ arb_call.op = "classify_input"
    /\ tracker_last_soc_action_ts > 0
    /\ arb_call.event_ts = tracker_last_soc_action_ts + ClassifyWindow
    /\ arb_call.source = SOC

(***************************************************************************)
(* Properties of the ActionJournal (checked under SpecJournal)             *)
(***************************************************************************)
\* Offline verification of the persisted file
ChainVerifies(lines) ==
    /\ Len(lines) > 0 => lines[1].prev_hash = GENESIS
    /\ \A i \in 2..Len(lines) : lines[i].prev_hash = lines[i - 1].hash
    /\ \A i \in 1..Len(lines) :
           lines[i].hash = canonical_hash([ lines[i] EXCEPT !.hash = None ])

\* C11: after any sequence of accepted record calls on arbitrary entries,
\* also entries that already carry hash, prev_hash or intent_ref (a dict
\* recorded twice), the persisted ledger verifies offline: the first
\* prev_hash is 64 zeros, every later prev_hash is the stored hash of the
\* entry before, and every stored hash is the digest of its entry with
\* prev_hash and without hash.
C11_LedgerVerifies == ChainVerifies(ledger)

C13_EffectBindsPendingIntent ==
    [][ j_call'.given.phase = EFFECT =>
          IF last_intent_hash = None
          THEN /\ j_call'.raised = "RuntimeError"
               /\ j_call'.step = "effect_without_intent"
               /\ UNCHANGED << ledger, last_hash, last_intent_hash >>
          ELSE j_call'.raised = None =>
                 /\ ledger' = Append(ledger, j_call'.entry)
                 /\ j_call'.entry.phase = EFFECT
                 /\ j_call'.entry.intent_ref = last_intent_hash
                 /\ \E i \in 1..Len(ledger) :
                        /\ ledger[i].phase = INTENT
                        /\ ledger[i].hash = last_intent_hash
                        /\ \A k \in (i + 1)..Len(ledger) : ledger[k].phase # EFFECT
                 /\ last_intent_hash' = None ]_vars

C13_Witness ==
    /\ j_call.op = "record"
    /\ j_call.given.phase = EFFECT
    /\ j_call.given.intent_ref = "mine"
    /\ j_call.raised = None
    /\ Len(ledger) = 3
    /\ ledger[2].phase = INTENT
    /\ ledger[3].intent_ref = ledger[2].hash
    /\ last_intent_hash = None


(***************************************************************************)
(* Properties of the PolicyEngine and the execution gate (SpecPolicy)      *)
(***************************************************************************)
\* C15: the execution gate performs the action only when validate returned
\* Allow for the target and action; nothing is executed on Deny or on
\* RequireHumanConfirmation.
C15_GateExecutesOnlyOnAllow ==
    (pol_call.op = "execute" /\ pol_call.performed) => pol_call.decision = ALLOW

\* The accessors of the target of the last validate call all returned
AccessorsReturned == Raises \notin { pol_call.node.app, pol_call.node.role, pol_call.node.name }

\* The owning application is identified and on the allow-list
AppAllowListed ==
    /\ pol_call.node.app \notin { NoValue, Raises, << >> }
    /\ Lower(pol_call.node.app) \in allowed_apps

\* The role of the target, "unknown" when the backend reports none
RoleOfTarget == Lower(OrDefault(pol_call.node.role, s_unknown))

\* The type action aimed at a role that is not text-entry-like
TypeIntoNonText ==
    /\ pol_call.action = "type"
    /\ ~Contains(RoleOfTarget, s_text)
    /\ ~Contains(RoleOfTarget, s_entry)

\* The target passes steps 1 to 4 of the oracle
EligibleTarget ==
    /\ AccessorsReturned
    /\ AppAllowListed
    /\ RoleOfTarget \notin denied_roles
    /\ ~TypeIntoNonText

\* C16: validate returns Deny, whatever the label, when the application is
\* unidentified or not on the allow-list, or the role is on the deny-list,
\* or the action is type and the role is not text-entry-like; no label
\* turns that Deny into RequireHumanConfirmation or Allow.
C16_HardDenyWhateverLabel ==
    (pol_call.op = "validate" /\ AccessorsReturned /\ ~EligibleTarget) =>
        pol_call.decision = DENY

C16_Witness ==
    /\ pol_call.op = "validate"
    /\ pol_call.node.app = s_firefox
    /\ pol_call.node.role = s_password_text
    /\ pol_call.node.name = << "D", "e", "l", "e", "t", "e", " ", "a", "l", "l" >>
    /\ pol_call.action = "click"
    /\ pol_call.decision = DENY
    /\ pol_call.reason = "Forbidden role"

\* The high-risk keywords of the oracle
HighRiskKeywords == { s_delete, s_remove, s_format, s_erase, s_sudo, s_settings }

\* C17: for a target in an allow-listed application, with a role off the
\* deny-list and an action that passes the type/role check, validate
\* returns RequireHumanConfirmation when the label contains, in any case,
\* one of delete, remove, format, erase, sudo, settings, and Allow
\* otherwise.
C17_HighRiskLabelNeedsConfirmation ==
    (pol_call.op = "validate" /\ EligibleTarget) =>
        pol_call.decision =
            IF \E kw \in HighRiskKeywords :
                   Contains(Lower(OrDefault(pol_call.node.name, << >>)), kw)
            THEN REQUIRE_HUMAN_CONFIRMATION
            ELSE ALLOW

\* C18: an error raised by an accessor of the target (role, label,
\* application) while validate evaluates it yields Deny; validate does not
\* raise and returns neither Allow nor RequireHumanConfirmation.
C18_FailsClosed ==
    (pol_call.op = "validate" /\ ~AccessorsReturned) =>
        (~pol_call.raised /\ pol_call.decision = DENY)

C18_Witness ==
    /\ pol_call.op = "validate"
    /\ pol_call.node.app = s_firefox
    /\ pol_call.node.role = s_button
    /\ pol_call.node.name = Raises
    /\ pol_call.action = "click"
    /\ pol_call.decision = DENY
    /\ pol_call.reason = "Policy internal error"


\* The last call of the gate recorded its Intent and then failed in the
\* action backend
FailedAfterIntent ==
    /\ pol_call.op = "execute"
    /\ pol_call.raised = "RuntimeError"
    /\ pol_call.audit = << INTENT >>

\* C38 (checked under SpecGate): when the action backend fails after the
\* Intent of a step has been recorded, no Intent is left unresolved in
\* the ledger, and the closing seal of the session does not raise.
C38_FailedActionLeavesNoIntent ==
    FailedAfterIntent =>
        /\ last_intent_hash = None
        /\ (j_call.op = "seal" /\ j_call.disk_ok) => j_call.raised = None

(***************************************************************************)
(* Properties of capture, restore and verify (SpecRestore)                 *)
(***************************************************************************)
\* C20: for a snapshot captured in OBSERVER mode and any later change of
\* cursor, focused window and execution mode, whenever restore returns
\* without error the cursor and the focused window are the snapshot's and a
\* verify called right then passes.
C20_RestoreReturnsRestored ==
    [][ (res_call'.op = "restore" /\ res_call'.raised = None) =>
            /\ os_cursor' = snapshot.cursor
            /\ os_focus' = snapshot.focus
            /\ VerifyOutcome(ThisOs, snapshot, DefaultCursorTolerance, DefaultScreenpipe,
                             feed, TRUE)'.raised = None
      ]_vars


\* C21: verify, of the verifier that main() constructs, returns without
\* error only if at that moment the execution mode is OBSERVER, the cursor
\* is within the tolerance of the snapshot's cursor on both axes, the
\* focused window is the snapshot's, and the live screen hash equals the
\* hash the snapshot recorded, when it recorded one.
C21_VerifyReturnsOnlyWhenRestored ==
    (res_call.op = "verify" /\ res_call.screenpipe = DefaultScreenpipe
        /\ res_call.raised = None) =>
        /\ os_mode = OBSERVER
        /\ Abs(os_cursor[1] - snapshot.cursor[1]) <= DefaultCursorTolerance
        /\ Abs(os_cursor[2] - snapshot.cursor[2]) <= DefaultCursorTolerance
        /\ os_focus = snapshot.focus
        /\ snapshot.screen_text_hash # None =>
               feed.screen_text_hash = snapshot.screen_text_hash

\* C23: restore called again after a restore that succeeded is a no-op: it
\* issues no call to the OS backend (no cursor, focus, application or mode
\* call), does not raise, and leaves cursor, focus and mode as they are.
C23_SecondRestoreIsNoOp ==
    [][ (restore_completed /\ res_call'.op = "restore") =>
            /\ res_call'.calls = << >>
            /\ res_call'.raised = None
            /\ UNCHANGED << os_cursor, os_focus, os_mode, restore_completed >>
      ]_vars

\* A second restore has returned although the workspace had moved away from
\* the snapshot since the first
C23_Witness ==
    /\ res_call.op = "restore"
    /\ res_call.step = "no-op"
    /\ restore_completed
    /\ os_cursor # snapshot.cursor
    /\ os_focus # snapshot.focus

\* The backend reported no value where a snapshot needs one, or one that
\* a snapshot may not hold
ReportedInvalid(reads) ==
    \/ reads.id = None \/ reads.id = ""
    \/ reads.process_name = None \/ reads.process_name = ""
    \/ reads.cursor[1] < 0 \/ reads.cursor[2] < 0
    \/ reads.pid # NoPid /\ reads.pid[1] <= 0

\* C24: a snapshot that capture returns has execution mode OBSERVER,
\* non-negative cursor coordinates, the non-empty window id and process
\* name the backend reported, and a pid that is absent or positive; when
\* the backend reports no window id, no process name, a negative
\* coordinate or a non-positive pid, capture raises and there is no
\* snapshot.
C24_SnapshotHoldsWhatWasReported ==
    res_call.op = "capture" =>
        /\ res_call.raised = None =>
               /\ snapshot # NoSnapshot
               /\ snapshot.execution_mode = OBSERVER
               /\ snapshot.cursor[1] >= 0 /\ snapshot.cursor[2] >= 0
               /\ snapshot.focus = res_call.reads.id
               /\ snapshot.focus # ""
               /\ snapshot.process_name = res_call.reads.process_name
               /\ snapshot.process_name # ""
               /\ snapshot.pid = NoPid \/ snapshot.pid[1] > 0
        /\ ReportedInvalid(res_call.reads) =>
               res_call.raised # None /\ snapshot = NoSnapshot

Issued(hook) ==
    \E i \in 1..Len(res_call.calls) : res_call.calls[i] = hook

\* C35: every restore call that is not the idempotent no-op issues
\* force_release_all, then stop_automated_input, then enable_user_input
\* before any cursor, focus, application or mode call, and a failure of
\* any of these three calls or of an extended-metadata step never aborts
\* the restore: it goes on to the cursor step, and returns completed when
\* the later steps answer well.
C35_SafetyStepsFirstAndSwallowed ==
    (res_call.op = "restore" /\ res_call.step = "restored") =>
        /\ Len(res_call.calls) > 3
        /\ SubSeq(res_call.calls, 1, 3) =
               << "force_release_all", "stop_automated_input", "enable_user_input" >>
        /\ Issued("set_cursor_position")
        /\ res_call.answers.failed # None =>
               res_call.raised = None /\ restore_completed

\* A restore has returned completed although enable_user_input raised
C35_Witness ==
    /\ res_call.op = "restore"
    /\ res_call.step = "restored"
    /\ res_call.answers.failed = "enable_user_input"
    /\ res_call.raised = None
    /\ restore_completed

\* C36: restore calls activate_application if and only if focus_window
\* returned false or raised; when cursor positioning fails, or when both
\* focus and application activation fail, restore raises
\* RestorationError and is not marked completed, and a restore called
\* after such a failure issues the steps again.
C36_FallbackAndFatalSteps ==
    [][ (res_call'.op = "restore" /\ res_call'.step = "restored") =>
            LET b == res_call'.answers
                calls == res_call'.calls
                activated == \E i \in 1..Len(calls) : calls[i] = "activate_application"
            IN
            /\ b.set_cursor_position = "ok" =>
                   (activated <=> b.focus_window \in { "false", "raise" })
            /\ (\/ b.set_cursor_position = "raise"
                \/ /\ b.focus_window \in { "false", "raise" }
                   /\ b.activate_application \in { "false", "raise" }) =>
                   /\ res_call'.raised = "RestorationError"
                   /\ ~restore_completed'
            /\ (res_call.op = "restore" /\ res_call.raised = "RestorationError") =>
                   \E i \in 1..Len(calls) : calls[i] = "set_cursor_position"
      ]_vars

\* A restore has failed on focus and activation both
C36_Witness ==
    /\ res_call.op = "restore"
    /\ res_call.step = "restored"
    /\ res_call.answers.focus_window = "raise"
    /\ res_call.answers.activate_application = "false"
    /\ Issued("activate_application")
    /\ res_call.raised = "RestorationError"
    /\ ~restore_completed

NoDanglingIntent(lines) ==
    \A i \in 1..Len(lines) :
        lines[i].phase = INTENT =>
            \E k \in (i + 1)..Len(lines) :
                lines[k].phase = EFFECT /\ lines[k].intent_ref = lines[i].hash

TreatedAsAbsent(file) ==
    \/ ~file.exists
    \/ ~file.readable
    \/ file.content.json # "object"
    \/ file.content.state.version # AUTH_STATE_VERSION

KilledInPersist == crash_site.pc # None /\ crash_site.persist_pc # "idle"

\* C26: when the process is killed at any point of a persist, a later load
\* returns the complete record persisted before or the complete new record:
\* never a partial one, never a default that hides a dirty flag persisted
\* before.
C26_PersistIsAtomic ==
    LET old == LoadOutcome(file_before).value
        new == persist_state
    IN
    /\ (root_pc \in { "dead", "load" } /\ KilledInPersist
            => /\ LoadOutcome(auth_file).value \in { old, new }
               /\ (old.dirty /\ LoadOutcome(auth_file).value # new
                       => LoadOutcome(auth_file).value.dirty))
    /\ (root_pc = "loaded" /\ KilledInPersist => persisted \in { old, new })

C26_Witness ==
    /\ root_pc = "loaded"
    /\ crash_site = [ pc |-> "persist_clean", persist_pc |-> "replace" ]
    /\ tmp_file = File(TRUE, Dump(CleanState(0)))
    /\ persisted = DirtyState(0)

\* The last process was killed after the dirty marker was persisted and
\* before the automated run ended
KilledInRun ==
    \/ crash_site.pc = "soc"
    \/ crash_site.pc = "persist_dirty" /\ crash_site.persist_pc = "unlink"

\* main() has gone past the recovery of lines 85-89
PastRecovery ==
    root_pc \notin { "dead", "load", "loaded", "recover_persist", "signal_persist",
                     "exited" }

\* C25: when the process is killed between the persist of the dirty marker
\* and the end of the automated run, the load of the next boot reports
\* dirty, and the boot calls force_release_all and forces the safe state
\* before the observer loop can hand off.
C25_KilledRunIsRecovered ==
    boots > 1 /\ KilledInRun =>
        /\ (root_pc \in { "dead", "load" } => LoadOutcome(auth_file).value.dirty)
        /\ (root_pc # "dead" /\ boot_calls # << >> => persisted.dirty)
        /\ (PastRecovery =>
                boot_calls = << "load", "force_release_all", "force_safe_state" >>)

C25_Witness ==
    /\ boots = 2
    /\ crash_site = [ pc |-> "soc", persist_pc |-> "idle" ]
    /\ root_pc = "persist_dirty"
    /\ persisted = DirtyState(0)
    /\ boot_calls = << "load", "force_release_all", "force_safe_state" >>

\* The record a load of the authority file returns
Stored == LoadOutcome(auth_file).value

\* The pcs of main() inside the persist of force_safe_state
SafePersists ==
    { "recover_persist", "except_persist", "shutdown_persist", "signal_persist" }

\* C40: force_safe_state always leaves the persisted record with mode
\* Observer, automation inactive, restore_required = true and dirty = true;
\* a record that asks for recovery keeps asking for it, whatever main()
\* writes, until the persist that follows an automated run that returned
\* writes a clean record; and
\* a boot that loads such a record goes on through the recovery path only.
\* So every boot that follows a recovery, a signal or an atexit shutdown
\* recovers again, until a run has completed and persisted a clean record.
C40_SafeStateKeepsRecovering ==
    [][ /\ (root_pc \in SafePersists /\ root_pc' \notin SafePersists \cup { "dead" }) =>
               /\ auth_file'.exists
               /\ Stored'.execution_mode = OBSERVER
               /\ ~Stored'.automation_active
               /\ Stored'.restore_required
               /\ Stored'.dirty
        /\ (persist_pc # "idle" /\ NeedsRecovery(Stored) /\ ~NeedsRecovery(Stored')) =>
               root_pc = "persist_clean" /\ persist_state = CleanState(now)
        /\ (root_pc = "loaded" /\ NeedsRecovery(Stored)) =>
               root_pc' \in { "loaded", "recover_persist", "signal_persist", "dead" }
        /\ (root_pc' = "controller" /\ boots > 1 /\ crash_site = NoCrash) =>
               boot_calls' = << "load", "force_release_all", "force_safe_state" >>
      ]_vars

\* The boot after a shutdown by signal or atexit has recovered again
C40_Witness ==
    /\ boots = 2
    /\ crash_site = NoCrash
    /\ root_pc = "controller"
    /\ boot_calls = << "load", "force_release_all", "force_safe_state" >>
    /\ auth_file.exists
    /\ Stored.restore_required /\ Stored.dirty

\* The hand-off of main() of src/main.py is over
HandOffOver == root_pc \in { "sleep", "exited" }

\* C22: on every exit path of the step loop after a successful capture,
\* Restore is invoked and then Verify, and afterwards the persisted crash
\* marker is cleared (dirty = false) and the mode is Observer.
C22_ExitRestoresVerifiesAndClears ==
    HandOffOver /\ snapshot # NoSnapshot =>
        /\ res_call.op = "finally"
        /\ res_call.step # "restore"
        /\ ~LoadOutcome(auth_file).value.dirty
        /\ mode = OBSERVER

\* The restore and the verify of the finally block of the run both returned
RestoredAndVerified == res_call.op = "finally" /\ res_call.raised = None

LastJournalEvent ==
    IF Len(journal_events) = 0 THEN None ELSE journal_events[Len(journal_events)]

C37_PollContinuesWithoutHuman ==
    (pc = "branch" /\ ~polled_release /\ arb_call.op = "evaluate") =>
        /\ decision = CONTINUE
        /\ arb_call.source = SOC

\* An automated run is believed active: an operator action has been marked
\* and operate() has not been left
RunActive ==
    /\ last_soc_action_ts # NoneTs
    /\ pc \notin { "returned_true", "returned_false", "raised" }

\* C33: the deadman watchdog sets the forced-release flag only while an
\* automated run is believed active; before the first operator action has
\* been marked, and after a run has finished and its last action is more
\* than the timeout old, the watchdog never sets the flag.
C33_WatchdogOnlyWhileRunActive ==
    [][ (arb_call'.op = "watchdog_loop" /\ ~forced_release /\ forced_release')
            => RunActive ]_vars

\* What the loop does guarantee: a primitive is issued only by a step whose
\* poll read the flag clear and returned CONTINUE; a poll that reads the
\* flag set leaves operate() with the exception of evaluate.
Loop_PollGuardsPrimitive ==
    [][ /\ (issued' # issued => ~polled_release /\ decision = CONTINUE)
        /\ (pc = "evaluate" /\ pc' # pc /\ forced_release => pc' = "raised")
        /\ (pc = "raised" => pc' = "raised" /\ issued' = issued) ]_vars

====
